---------------------------- MODULE Spec2Model ----------------------------
(***************************************************************************)
(* MidRender: the leader's persistent store (DatabaseManager), the         *)
(* dispatch cycle (DispatchManager), the peer registry (PeerManager), the  *)
(* worker-to-leader report queue (MonitorApp) and the leader-only HTTP     *)
(* handlers (HttpServer), as one state machine.                            *)
(*                                                                         *)
(* Conventions.  SQL NULL in a TEXT column is NullStr, in an INTEGER       *)
(* column NullMs; node ids are never empty and wall-clock readings are     *)
(* never 0, as in the program.  A table is the sequence of its rows in     *)
(* rowid order.  The local database file of a node keeps its rows while    *)
(* the handle is closed (field open).                                      *)
(***************************************************************************)
EXTENDS Integers, Sequences, FiniteSets, TLC

\* ------------------------------------------------------------------ bounds
MaxTime == 2
MaxFrame == 1
MaxMaxRetries == 2
MaxRetryCount == 3
MaxSubmissions == 1
MaxQueue == 1
MaxPending == 1
MaxInbound == 1
MaxCrashes == 1
MaxTicks == 2
MaxCalls == 4
StoreFrames == 2
MaxFailureCount == 8

\* ------------------------------------------------------- program constants
REVERT_MAX_RETRIES == 999
DEFAULT_MAX_RETRIES == 3
DEFAULT_PRIORITY == 50
DEAD_AFTER_FAILED_POLLS == 3
SUSPEND_THRESHOLD == 5
SUSPEND_WINDOW_MS == 300000

NullStr == ""
NullMs == 0

\* Node ids in lexicographic order (std::map order, election tiebreak).
NodeSeq == <<"a", "b">>
Nodes == {NodeSeq[i] : i \in DOMAIN NodeSeq}
NodeIdx(n) == CHOOSE i \in DOMAIN NodeSeq : NodeSeq[i] = n
\* Config tags of each node (leader / noleader / job targeting tags).
NodeTags == [n \in Nodes |-> {}]
JobIds == {"j1"}
JobIds1 == "j1"
Times == 1..MaxTime

\* ------------------------------------------------------------ small helpers
Range(s) == {s[i] : i \in DOMAIN s}

Contains(s, x) == \E i \in DOMAIN s : s[i] = x

Min(S) == CHOOSE x \in S : \A y \in S : x <= y

RECURSIVE SetToSeq(_)
SetToSeq(S) ==
    IF S = {} THEN <<>>
    ELSE LET x == CHOOSE y \in S : \A z \in S : y <= z
         IN <<x>> \o SetToSeq(S \ {x})

\* ---------------------------------------------------------------- the store
RECURSIVE computeChunks(_, _, _)

\* Mutant: computeChunks without the clamp of the last chunk to frameEnd.
computeChunksUnclamped(frameStart, frameEnd, chunkSize) ==
    IF frameStart > frameEnd THEN <<>>
    ELSE LET e == frameStart + chunkSize - 1
         IN <<[frame_start |-> frameStart, frame_end |-> e]>>
            \o computeChunks(e + 1, frameEnd, chunkSize)

\* ChunkRange list of a submission: consecutive ranges of chunk_size frames.
computeChunks(frameStart, frameEnd, chunkSize) ==
    IF frameStart > frameEnd THEN <<>>
    ELSE LET e == IF frameStart + chunkSize - 1 < frameEnd
                  THEN frameStart + chunkSize - 1 ELSE frameEnd
         IN <<[frame_start |-> frameStart, frame_end |-> e]>>
            \o computeChunks(e + 1, frameEnd, chunkSize)

EmptyStore == [open |-> FALSE, jobs |-> <<>>, chunks |-> <<>>]

NewChunkRow(jobId, r) ==
    [job_id |-> jobId, frame_start |-> r.frame_start, frame_end |-> r.frame_end,
     state |-> "pending", assigned_to |-> NullStr, assigned_at_ms |-> NullMs,
     completed_at_ms |-> NullMs, retry_count |-> 0,
     completed_frames |-> <<>>, failed_on |-> <<>>,
     reports |-> 0]   \* history: failure reports applied since the last reset

HasJob(s, jobId) == \E i \in DOMAIN s.jobs : s.jobs[i].job_id = jobId

\* getJob: the row with this primary key (callers test HasJob first).
getJob(s, jobId) ==
    s.jobs[CHOOSE i \in DOMAIN s.jobs : s.jobs[i].job_id = jobId]

\* insertJob: fails (store unchanged) on a duplicate primary key.
insertJob(s, row) ==
    IF HasJob(s, row.job_id) THEN s
    ELSE [s EXCEPT !.jobs = Append(@, row)]

insertChunks(s, jobId, ranges) ==
    [s EXCEPT !.chunks = @ \o [i \in DOMAIN ranges |-> NewChunkRow(jobId, ranges[i])]]

updateJobState(s, jobId, newState) ==
    [s EXCEPT !.jobs = [i \in DOMAIN @ |->
        IF @[i].job_id = jobId THEN [@[i] EXCEPT !.current_state = newState]
        ELSE @[i]]]

\* Mutant: the DELETE without the cascade to the chunks.
deleteJobWithoutCascade(s, jobId) ==
    [s EXCEPT !.jobs = SelectSeq(@, LAMBDA j : j.job_id # jobId)]

\* deleteJob: ON DELETE CASCADE removes the job's chunks.
deleteJob(s, jobId) ==
    [s EXCEPT !.jobs = SelectSeq(@, LAMBDA j : j.job_id # jobId),
              !.chunks = SelectSeq(@, LAMBDA c : c.job_id # jobId)]

\* retry_count + 1; the model stops counting at MaxRetryCount, which is above
\* every max_retries a job can have.
Bump(x) == IF x < MaxRetryCount THEN x + 1 ELSE x

Matches(c, jobId, fs, fe) ==
    c.job_id = jobId /\ c.frame_start = fs /\ c.frame_end = fe

assignChunk(s, chunkIdx, nodeId, nowMs) ==
    [s EXCEPT !.chunks = [i \in DOMAIN @ |->
        IF i = chunkIdx /\ @[i].state = "pending"
        THEN [@[i] EXCEPT !.state = "assigned", !.assigned_to = nodeId,
                          !.assigned_at_ms = nowMs]
        ELSE @[i]]]

\* Mutant: the UPDATE of completeChunk without "AND state = 'assigned'".
completeChunkAnyState(s, jobId, fs, fe, nowMs) ==
    [s EXCEPT !.chunks = [i \in DOMAIN @ |->
        IF Matches(@[i], jobId, fs, fe)
        THEN [@[i] EXCEPT !.state = "completed", !.completed_at_ms = nowMs]
        ELSE @[i]]]

completeChunk(s, jobId, fs, fe, nowMs) ==
    [s EXCEPT !.chunks = [i \in DOMAIN @ |->
        IF Matches(@[i], jobId, fs, fe) /\ @[i].state = "assigned"
        THEN [@[i] EXCEPT !.state = "completed", !.completed_at_ms = nowMs]
        ELSE @[i]]]

\* Mutant: failingNodeId is appended whether or not it is already there.
failChunkBlacklistAlways(s, jobId, fs, fe, failingNodeId) ==
    IF failingNodeId = NullStr
       \/ ~ \E i \in DOMAIN s.chunks : Matches(s.chunks[i], jobId, fs, fe)
    THEN s
    ELSE LET k == Min({i \in DOMAIN s.chunks : Matches(s.chunks[i], jobId, fs, fe)})
         IN [s EXCEPT !.chunks[k].failed_on = Append(@, failingNodeId)]

\* failChunk, first statement: append failingNodeId to failed_on of the
\* first matching row unless it is already there.
failChunkBlacklist(s, jobId, fs, fe, failingNodeId) ==
    IF failingNodeId = NullStr
       \/ ~ \E i \in DOMAIN s.chunks : Matches(s.chunks[i], jobId, fs, fe)
    THEN s
    ELSE LET k == Min({i \in DOMAIN s.chunks : Matches(s.chunks[i], jobId, fs, fe)})
         IN IF Contains(s.chunks[k].failed_on, failingNodeId) THEN s
            ELSE [s EXCEPT !.chunks[k].failed_on = Append(@, failingNodeId)]

\* failChunk, second statement: the UPDATE has no condition on state; the
\* right-hand sides read the row before the update.
failChunkUpdate(s, jobId, fs, fe, maxRetries) ==
    [s EXCEPT !.chunks = [i \in DOMAIN @ |->
        IF Matches(@[i], jobId, fs, fe)
        THEN LET under == @[i].retry_count + 1 < maxRetries
             IN [@[i] EXCEPT
                   !.retry_count = Bump(@),
                   !.state = IF under THEN "pending" ELSE "failed",
                   !.assigned_to = IF under THEN NullStr ELSE @,
                   !.assigned_at_ms = IF under THEN NullMs ELSE @]
        ELSE @[i]]]

failChunk(s, jobId, fs, fe, maxRetries, failingNodeId) ==
    failChunkUpdate(failChunkBlacklist(s, jobId, fs, fe, failingNodeId),
                    jobId, fs, fe, maxRetries)

reassignDeadWorkerChunks(s, deadNodeId) ==
    [s EXCEPT !.chunks = [i \in DOMAIN @ |->
        IF @[i].assigned_to = deadNodeId /\ @[i].state = "assigned"
        THEN [@[i] EXCEPT !.state = "pending", !.assigned_to = NullStr,
                          !.assigned_at_ms = NullMs]
        ELSE @[i]]]

isJobComplete(s, jobId) ==
    \A i \in DOMAIN s.chunks :
        s.chunks[i].job_id = jobId => s.chunks[i].state \in {"completed", "failed"}

resetAllChunks(s, jobId) ==
    [s EXCEPT !.chunks = [i \in DOMAIN @ |->
        IF @[i].job_id = jobId
        THEN [@[i] EXCEPT !.state = "pending", !.assigned_to = NullStr,
                          !.assigned_at_ms = NullMs, !.completed_at_ms = NullMs,
                          !.retry_count = 0, !.completed_frames = <<>>,
                          !.failed_on = <<>>, !.reports = 0]
        ELSE @[i]]]

\* Mutant: the UPDATE of retryFailedChunks without its state condition and
\* with failed_on reset.
retryFailedChunksOfAnyState(s, jobId) ==
    [s EXCEPT !.chunks = [i \in DOMAIN @ |->
        IF @[i].job_id = jobId
        THEN [@[i] EXCEPT !.state = "pending", !.assigned_to = NullStr,
                          !.assigned_at_ms = NullMs, !.retry_count = 0,
                          !.completed_frames = <<>>, !.failed_on = <<>>,
                          !.reports = 0]
        ELSE @[i]]]

\* retryFailedChunks: failed rows back to pending, failed_on kept; the job
\* is set active when at least one row changed.
retryFailedChunks(s, jobId) ==
    LET hit == \E i \in DOMAIN s.chunks :
                   s.chunks[i].job_id = jobId /\ s.chunks[i].state = "failed"
        s1 == [s EXCEPT !.chunks = [i \in DOMAIN @ |->
                 IF @[i].job_id = jobId /\ @[i].state = "failed"
                 THEN [@[i] EXCEPT !.state = "pending", !.assigned_to = NullStr,
                                   !.assigned_at_ms = NullMs, !.retry_count = 0,
                                   !.completed_frames = <<>>, !.reports = 0]
                 ELSE @[i]]]
    IN IF hit THEN updateJobState(s1, jobId, "active") ELSE s1

\* Mutant: the frame is pushed without the search for it in the list.
addFrameWithoutFind(c, frame) ==
    IF frame >= c.frame_start /\ frame <= c.frame_end
    THEN [c EXCEPT !.completed_frames = Append(@, frame)]
    ELSE c

\* addCompletedFramesBatch for one frame list: each frame goes to the first
\* chunk (by frame_start) whose range contains it; the list is kept sorted.
addFrame(c, frame) ==
    IF frame >= c.frame_start /\ frame <= c.frame_end
       /\ ~Contains(c.completed_frames, frame)
    THEN [c EXCEPT !.completed_frames = SetToSeq(Range(@) \cup {frame})]
    ELSE c

RECURSIVE addCompletedFramesBatch(_, _, _)
addCompletedFramesBatch(s, jobId, frames) ==
    IF frames = <<>> THEN s
    ELSE LET f == Head(frames)
             cand == {i \in DOMAIN s.chunks :
                        /\ s.chunks[i].job_id = jobId
                        /\ f >= s.chunks[i].frame_start
                        /\ f <= s.chunks[i].frame_end}
             s1 == IF cand = {} THEN s
                   ELSE LET k == CHOOSE i \in cand : \A j \in cand :
                                     s.chunks[i].frame_start <= s.chunks[j].frame_start
                        IN [s EXCEPT !.chunks[k] = addFrame(@, f)]
         IN addCompletedFramesBatch(s1, jobId, Tail(frames))

\* addCompletedFrames: the frame goes to a chunk of the job whose range
\* contains it (LIMIT 1), nothing happens when there is none.
addCompletedFrames(s, jobId, frame) ==
    LET cand == {i \in DOMAIN s.chunks :
                    /\ s.chunks[i].job_id = jobId
                    /\ s.chunks[i].frame_start <= frame
                    /\ s.chunks[i].frame_end >= frame}
    IN IF cand = {} THEN s
       ELSE [s EXCEPT !.chunks[Min(cand)] = addFrame(@, frame)]

\* Mutant: the job query ordered by submitted_at_ms alone.
JobBeforeBySubmissionOnly(s, i, j) ==
    \/ s.jobs[i].submitted_at_ms < s.jobs[j].submitted_at_ms
    \/ /\ s.jobs[i].submitted_at_ms = s.jobs[j].submitted_at_ms
       /\ i < j

\* Job order of findNextPendingChunkForNode: priority, then submitted_at_ms,
\* rows with equal keys in rowid order.
JobBefore(s, i, j) ==
    \/ s.jobs[i].priority < s.jobs[j].priority
    \/ /\ s.jobs[i].priority = s.jobs[j].priority
       /\ s.jobs[i].submitted_at_ms < s.jobs[j].submitted_at_ms
    \/ /\ s.jobs[i].priority = s.jobs[j].priority
       /\ s.jobs[i].submitted_at_ms = s.jobs[j].submitted_at_ms
       /\ i < j

\* Mutant: the chunk query without the failed_on check.
TakeableChunksIgnoringFailedOn(s, jobId, nodeId) ==
    {i \in DOMAIN s.chunks :
        s.chunks[i].job_id = jobId /\ s.chunks[i].state = "pending"}

\* Pending chunks of a job that nodeId may take (blacklist check; an empty
\* nodeId skips the check).
TakeableChunks(s, jobId, nodeId) ==
    {i \in DOMAIN s.chunks :
        /\ s.chunks[i].job_id = jobId
        /\ s.chunks[i].state = "pending"
        /\ (nodeId = NullStr \/ ~Contains(s.chunks[i].failed_on, nodeId))}

\* Mutant: the job query with current_state NOT IN the terminal states.
JobDispatchableUnlessTerminal(job) ==
    job.current_state \notin {"cancelled", "completed", "archived"}

\* The job query: WHERE j.current_state = 'active'.
JobDispatchable(job) == job.current_state = "active"

\* Mutant: a node with one of the required tags is taken as eligible.
TagsEligibleWithAnyTag(tagsRequired, nodeTags) ==
    tagsRequired = {} \/ tagsRequired \cap nodeTags # {}

\* The tags_required loop: every required tag is among the node's tags.
TagsEligible(tagsRequired, nodeTags) == tagsRequired \subseteq nodeTags

\* Index of the chunk found, 0 when there is none.
findNextPendingChunkForNode(s, nodeTags, nodeId) ==
    LET eligible == {j \in DOMAIN s.jobs :
            /\ JobDispatchable(s.jobs[j])
            /\ \E i \in DOMAIN s.chunks :
                   s.chunks[i].job_id = s.jobs[j].job_id /\ s.chunks[i].state = "pending"
            /\ TagsEligible(s.jobs[j].manifest.tags_required, nodeTags)
            /\ TakeableChunks(s, s.jobs[j].job_id, nodeId) # {}}
    IN IF eligible = {} THEN 0
       ELSE LET j == CHOOSE x \in eligible : \A y \in eligible \ {x} : JobBefore(s, x, y)
                t == TakeableChunks(s, s.jobs[j].job_id, nodeId)
            IN CHOOSE i \in t : \A k \in t :
                   \/ s.chunks[i].frame_start < s.chunks[k].frame_start
                   \/ (s.chunks[i].frame_start = s.chunks[k].frame_start /\ i <= k)

\* ------------------------------------------------------ failure tracker
NoRecord == [failure_count |-> 0, first_failure_ms |-> 0, last_failure_ms |-> 0,
             suspended |-> FALSE]

\* Mutant: recordFailure without the reset of an expired window.
recordFailureWithoutWindow(r, nowMs) ==
    LET r2 == IF r.failure_count = 0 THEN [r EXCEPT !.first_failure_ms = nowMs] ELSE r
        n  == IF r2.failure_count < MaxFailureCount THEN r2.failure_count + 1
              ELSE r2.failure_count
    IN [r2 EXCEPT !.failure_count = n, !.last_failure_ms = nowMs,
                  !.suspended = (@ \/ n >= SUSPEND_THRESHOLD)]

\* NodeFailureTracker::recordFailure on one node's record (a missing record
\* is the default-constructed one).  failure_count stops at MaxFailureCount,
\* which lies above the threshold.
recordFailure(r, nowMs) ==
    LET r1 == IF r.first_failure_ms > 0 /\ (nowMs - r.first_failure_ms) > SUSPEND_WINDOW_MS
              THEN [r EXCEPT !.failure_count = 0, !.first_failure_ms = nowMs]
              ELSE r
        r2 == IF r1.failure_count = 0 THEN [r1 EXCEPT !.first_failure_ms = nowMs] ELSE r1
        n  == IF r2.failure_count < MaxFailureCount THEN r2.failure_count + 1
              ELSE r2.failure_count
    IN [r2 EXCEPT !.failure_count = n, !.last_failure_ms = nowMs,
                  !.suspended = (@ \/ n >= SUSPEND_THRESHOLD)]

\* NodeFailureTracker::clearNode: the record is erased.
clearNode(trk, nodeId) == [trk EXCEPT ![nodeId] = NoRecord]

isSuspended(trk, nodeId) == trk[nodeId].suspended

\* History only: the nodes suspended in tracker after and not in before.
NewlySuspended(before, after) ==
    {w \in Nodes : isSuspended(after, w) /\ ~isSuspended(before, w)}

\* ------------------------------------------------------------ the farm
VARIABLES
    now,             \* wall clock
    up,              \* [node -> process running with the farm started]
    endpointFile,    \* [node -> {farm}/nodes/{id}/endpoint.json exists]
    nodeState,       \* [node -> "active" | "stopped"]
    peers,           \* [node -> [node -> PeerInfo]]   PeerManager::m_peers
    isLeader,        \* [node -> BOOLEAN]              PeerManager::m_isLeader
    wasLeader,       \* [node -> BOOLEAN]              MonitorApp::m_wasLeader
    leaderDbReady,   \* [node -> BOOLEAN]              MonitorApp::m_leaderDbReady
    leaderThread,    \* [node -> BOOLEAN]  background open/restore still running
    db,              \* [node -> store]                local midrender.db
    snapshot,        \* {farm}/state/snapshot.db (open = the file exists)
    completionQueue, \* [node -> Seq(report)]          DispatchManager queues
    failureQueue,    \* [node -> Seq(report)]
    tracker,         \* [node -> [node -> Record]]     m_failureTracker
    dispatchQueue,   \* [node -> Seq(chunk key)]       RenderCoordinator queue
    activeRender,    \* [node -> Seq(chunk key), length <= 1]
    pendingReports,  \* [node -> Seq(PendingReport)]   MonitorApp::m_pendingReports
    markedDead,      \* history: [node -> peers it flipped to !is_alive since its last tick]
    lastOp,          \* history: the last store call (store-level specification)
    submitted,       \* history: number of submissions so far
    ticks,           \* history: number of dispatch ticks so far
    crashes,         \* history: number of crashes so far
    localTags,       \* [node -> set of tags]         PeerManager::m_localTags
    configTags,      \* [node -> set of tags]         MonitorApp::m_config.tags
    suspendedNodes,  \* history: nodes a tracker has suspended, unsuspend not called since
    failureLog,      \* history: [node -> times of the recordFailure calls on its record]
                     \*          (failure tracker specification)
    snapFiles,       \* the snapshot files page by page (snapshot-file specification):
                     \*   snapshot_tmp.db, {farm}/state/snapshot.db, the copy tasks
    pollRun,         \* history: [node -> [peer -> HTTP polls of the peer that failed
                     \*          in a row, up to now]]  (peer-poll specification)
    flushBatch,      \* [node -> Seq(PendingReport)]   the batch a running
                     \*          flushCompletionReports took out of the queue
    arrivals         \* history: [node -> the reports queueCompletion and queueFailure
                     \*          received, in the order of the calls]

vars == <<now, up, endpointFile, nodeState, peers, isLeader, wasLeader, leaderDbReady,
          leaderThread, db, snapshot, completionQueue, failureQueue, tracker,
          dispatchQueue, activeRender, pendingReports, markedDead, lastOp,
          submitted, ticks, crashes, localTags, configTags, suspendedNodes, failureLog, snapFiles, pollRun, flushBatch, arrivals>>

\* No snapshot taken yet: neither file exists, no copy task runs, nothing
\* was restored.  version counts the snapshots taken; a file is the sequence
\* of its pages, each page the version of the image it belongs to.
NoFiles == [version |-> 0, tmp |-> <<>>, shared |-> <<>>, tasks |-> <<>>,
            restored |-> <<>>, restores |-> 0]

Absent == [present |-> FALSE, is_alive |-> FALSE, is_leader |-> FALSE,
           failed_polls |-> 0, node_state |-> "active", render_state |-> "idle",
           tags |-> {}]

\* A peer as first inserted by discoverPeers or by a heartbeat of an unknown node.
Discovered == [Absent EXCEPT !.present = TRUE, !.is_alive = TRUE]

isRendering(n) == activeRender[n] # <<>>

RenderStateOf(n) == IF isRendering(n) THEN "rendering" ELSE "idle"

\* MonitorApp::buildLocalPeerInfo, the fields the model keeps.
buildLocalPeerInfo(n) ==
    [present |-> TRUE, is_alive |-> TRUE, is_leader |-> FALSE, failed_polls |-> 0,
     node_state |-> nodeState[n], render_state |-> RenderStateOf(n),
     tags |-> configTags[n]]

ChunkKeys == JobIds \X (1..MaxFrame) \X (1..MaxFrame)

Key(c) == <<c.job_id, c.frame_start, c.frame_end>>

\* History of the store-level specification: the last store call, whether it
\* repeats the call before it (again), the time of the first call of such a
\* run (first_t), whether that first call changed a row (acted), and the
\* number of calls so far (n); for an HTTP request, the node that served it
\* and the status of its reply.
NoOp == [kind |-> "none", job_id |-> "", frame_start |-> 0, frame_end |-> 0,
         t |-> 0, first_t |-> 0, acted |-> FALSE, again |-> FALSE, n |-> 0,
         node |-> "", status |-> 0]

\* ------------------------------------------------------- dispatch tick
CompletionReport(nodeId, jobId, fs, fe) ==
    [node_id |-> nodeId, job_id |-> jobId, frame_start |-> fs, frame_end |-> fe]

\* max_retries as processReports and reportCompletion look it up.
LookupMaxRetries(s, jobId) ==
    IF HasJob(s, jobId) THEN getJob(s, jobId).manifest.max_retries
    ELSE DEFAULT_MAX_RETRIES

\* History only: one more failure report applied to the chunk.
NoteReport(s, jobId, fs, fe) ==
    [s EXCEPT !.chunks = [i \in DOMAIN @ |->
        IF Matches(@[i], jobId, fs, fe) THEN [@[i] EXCEPT !.reports = Bump(@)]
        ELSE @[i]]]

\* processReports, the completion loop.
RECURSIVE ProcessCompletions(_, _, _)
ProcessCompletions(s, q, nowMs) ==
    IF q = <<>> THEN s
    ELSE LET r == Head(q)
         IN ProcessCompletions(
                completeChunk(s, r.job_id, r.frame_start, r.frame_end, nowMs),
                Tail(q), nowMs)

\* One iteration of the failure loop of processReports on the pair
\* (store, failure tracker).
ProcessFailure(st, r, nowMs) ==
    LET s1 == failChunk(st.db, r.job_id, r.frame_start, r.frame_end,
                        LookupMaxRetries(st.db, r.job_id), r.node_id)
    IN [db  |-> NoteReport(s1, r.job_id, r.frame_start, r.frame_end),
        trk |-> IF r.node_id # NullStr
                THEN [st.trk EXCEPT ![r.node_id] = recordFailure(@, nowMs)]
                ELSE st.trk]

RECURSIVE ProcessFailures(_, _, _)
ProcessFailures(st, q, nowMs) ==
    IF q = <<>> THEN st
    ELSE ProcessFailures(ProcessFailure(st, Head(q), nowMs), Tail(q), nowMs)

\* processReports: completions first, then failures.
processReports(s, trk, cq, fq, nowMs) ==
    ProcessFailures([db |-> ProcessCompletions(s, cq, nowMs), trk |-> trk], fq, nowMs)

\* detectDeadWorkers on a peer snapshot ps (function node -> PeerInfo).
RECURSIVE DeadLoop(_, _, _)
DeadLoop(s, ps, i) ==
    IF i > Len(NodeSeq) THEN s
    ELSE LET w == NodeSeq[i]
         IN DeadLoop(IF ps[w].present /\ ~ps[w].is_alive
                     THEN reassignDeadWorkerChunks(s, w) ELSE s,
                     ps, i + 1)

detectDeadWorkers(s, ps) == DeadLoop(s, ps, 1)

checkJobCompletions(s) ==
    [s EXCEPT !.jobs = [j \in DOMAIN @ |->
        IF @[j].current_state = "active" /\ isJobComplete(s, @[j].job_id)
        THEN [@[j] EXCEPT !.current_state = "completed"]
        ELSE @[j]]]

\* POST /api/dispatch/assign on worker w: 409 while rendering or stopped.
WorkerAccepts(w) == up[w] /\ ~isRendering(w) /\ nodeState[w] # "stopped"

\* The peers assignWork visits: the registry in map order, then the local node.
AssignOrder(n) == SelectSeq(NodeSeq, LAMBDA w : w # n) \o <<n>>

\* Mutant: assignWork without its check of node_state.
AssignOneAlsoStopped(st, n, w, trk, net) ==
    LET info == IF w = n THEN buildLocalPeerInfo(n) ELSE peers[n][w]
        idx  == findNextPendingChunkForNode(st.db, info.tags, w)
    IN IF \/ ~info.present
          \/ ~info.is_alive
          \/ info.render_state = "rendering"
          \/ isSuspended(trk, w)
          \/ idx = 0
       THEN st
       ELSE LET c  == st.db.chunks[idx]
                s1 == assignChunk(st.db, idx, w, now)
                queued == [db |-> s1,
                           dq |-> [st.dq EXCEPT ![w] = Append(@, Key(c))]]
            IN IF w = n THEN queued
               ELSE IF WorkerAccepts(w) /\ net[w] = "ok" THEN queued
               ELSE [db |-> failChunk(s1, c.job_id, c.frame_start, c.frame_end,
                                      REVERT_MAX_RETRIES, NullStr),
                     dq |-> st.dq]

\* One iteration of the loop of assignWork for peer w on leader n.  st is
\* the pair (store, render coordinators' queues); net[w] tells whether the
\* POST to w and its reply get through.
AssignOne(st, n, w, trk, net) ==
    LET info == IF w = n THEN buildLocalPeerInfo(n) ELSE peers[n][w]
        idx  == findNextPendingChunkForNode(st.db, info.tags, w)
    IN IF \/ ~info.present
          \/ ~info.is_alive
          \/ info.node_state = "stopped"
          \/ info.render_state = "rendering"
          \/ isSuspended(trk, w)
          \/ idx = 0
       THEN st
       ELSE LET c  == st.db.chunks[idx]
                s1 == assignChunk(st.db, idx, w, now)
                queued == [db |-> s1,
                           dq |-> [st.dq EXCEPT ![w] = Append(@, Key(c))]]
            IN IF w = n THEN queued
               ELSE IF WorkerAccepts(w) /\ net[w] = "ok" THEN queued
               ELSE [db |-> failChunk(s1, c.job_id, c.frame_start, c.frame_end,
                                      REVERT_MAX_RETRIES, NullStr),
                     dq |-> st.dq]

RECURSIVE AssignLoop(_, _, _, _, _, _)
AssignLoop(st, n, trk, net, order, i) ==
    IF i > Len(order) THEN st
    ELSE AssignLoop(AssignOne(st, n, order[i], trk, net), n, trk, net, order, i + 1)

assignWork(s, dq, n, trk, net) ==
    AssignLoop([db |-> s, dq |-> dq], n, trk, net, AssignOrder(n), 1)

\* The result of one DispatchManager::update on leader n, before the snapshot.
TickResult(n, net) ==
    LET r  == processReports(db[n], tracker[n], completionQueue[n], failureQueue[n], now)
        s3 == checkJobCompletions(detectDeadWorkers(r.db, peers[n]))
        a  == assignWork(s3, dispatchQueue, n, r.trk, net)
    IN [db |-> a.db, dq |-> a.dq, trk |-> r.trk]

\* MonitorApp::update gate for the dispatch cycle.
CanDispatch(n) ==
    up[n] /\ isLeader[n] /\ wasLeader[n] /\ leaderDbReady[n] /\ db[n].open

\* snapshotTo + copy to {farm}/state/snapshot.db.
snapshotTo(s) == [s EXCEPT !.open = TRUE]

\* restoreFrom: the snapshot replaces the local file, which is then opened.
restoreFrom(snap) == [snap EXCEPT !.open = TRUE]

\* DispatchManager::update on leader n with the network outcome net and the
\* snapshot timer due or not (snap).  The render coordinator of every node
\* runs at main-loop rate, so its queue is pumped between two ticks.
update(n, net, snap) ==
    /\ CanDispatch(n)
    /\ \A w \in Nodes : Len(dispatchQueue[w]) < MaxQueue
    /\ LET t == TickResult(n, net)
       IN /\ db' = [db EXCEPT ![n] = t.db]
          /\ tracker' = [tracker EXCEPT ![n] = t.trk]
          /\ dispatchQueue' = t.dq
          /\ snapshot' = IF snap THEN snapshotTo(t.db) ELSE snapshot
          /\ suspendedNodes' = suspendedNodes \cup NewlySuspended(tracker[n], t.trk)
    /\ completionQueue' = [completionQueue EXCEPT ![n] = <<>>]
    /\ failureQueue' = [failureQueue EXCEPT ![n] = <<>>]
    /\ markedDead' = [markedDead EXCEPT ![n] = {}]
    /\ UNCHANGED <<now, up, endpointFile, nodeState, peers, isLeader, wasLeader,
                   leaderDbReady, leaderThread, activeRender, pendingReports,
                   lastOp, submitted, crashes, localTags, configTags, failureLog, snapFiles, pollRun, flushBatch, arrivals>>

Tick(n) ==
    /\ ticks < MaxTicks
    /\ \E net \in [Nodes -> {"ok", "fail"}], snap \in BOOLEAN : update(n, net, snap)
    /\ ticks' = ticks + 1

\* ------------------------------------------------------------- submission
Manifest(jobId, chunkSize, maxRetries) ==
    [frame_start |-> 1, frame_end |-> MaxFrame, chunk_size |-> chunkSize,
     max_retries |-> maxRetries, tags_required |-> {}]

\* DispatchManager::submitJob, where chunksOk tells whether insertChunks
\* commits its transaction; when it does not, no chunk row is left and the
\* job row is deleted again.
submitJobWith(s, jobId, m, priority, submittedAt, chunksOk) ==
    LET row == [job_id |-> jobId, manifest |-> m, current_state |-> "active",
                priority |-> priority, submitted_at_ms |-> submittedAt]
    IN IF HasJob(s, jobId) THEN s
       ELSE IF ~chunksOk THEN deleteJob(insertJob(s, row), jobId)
       ELSE insertChunks(insertJob(s, row), jobId,
                         computeChunks(m.frame_start, m.frame_end, m.chunk_size))

\* DispatchManager::submitJob on a store that takes every insert.
submitJob(s, jobId, m, priority, submittedAt) ==
    submitJobWith(s, jobId, m, priority, submittedAt, TRUE)

\* A submission entered on the leader's own UI.
Submit(n) ==
    /\ up[n] /\ isLeader[n] /\ db[n].open
    /\ submitted < MaxSubmissions
    /\ \E j \in JobIds, cs \in 1..MaxFrame, mr \in 0..MaxMaxRetries :
         db' = [db EXCEPT ![n] = submitJob(@, j, Manifest(j, cs, mr),
                                           DEFAULT_PRIORITY, now)]
    /\ submitted' = submitted + 1
    /\ UNCHANGED <<now, up, endpointFile, nodeState, peers, isLeader, wasLeader,
                   leaderDbReady, leaderThread, snapshot, completionQueue,
                   failureQueue, tracker, dispatchQueue, activeRender,
                   pendingReports, markedDead, lastOp, ticks, crashes, localTags, configTags, suspendedNodes, failureLog, snapFiles, pollRun, flushBatch, arrivals>>

\* ----------------------------------------------------------------- worker
\* RenderCoordinator::update: an idle, not stopped node starts the next
\* queued chunk.
StartRender(w) ==
    /\ up[w] /\ dispatchQueue[w] # <<>> /\ ~isRendering(w)
    /\ nodeState[w] # "stopped"
    /\ activeRender' = [activeRender EXCEPT ![w] = <<Head(dispatchQueue[w])>>]
    /\ dispatchQueue' = [dispatchQueue EXCEPT ![w] = Tail(@)]
    /\ UNCHANGED <<now, up, endpointFile, nodeState, peers, isLeader, wasLeader,
                   leaderDbReady, leaderThread, db, snapshot, completionQueue,
                   failureQueue, tracker, pendingReports, markedDead, lastOp,
                   submitted, ticks, crashes, localTags, configTags, suspendedNodes, failureLog, snapFiles, pollRun, flushBatch, arrivals>>

PendingReport(k, state) ==
    [jobId |-> k[1], frameStart |-> k[2], frameEnd |-> k[3], state |-> state]

\* MonitorApp::reportCompletion, the branch taken on the leader itself.
ReportDirect(s, w, k, state, nowMs) ==
    IF state = "completed" THEN completeChunk(s, k[1], k[2], k[3], nowMs)
    ELSE NoteReport(failChunk(s, k[1], k[2], k[3], LookupMaxRetries(s, k[1]), w),
                    k[1], k[2], k[3])

\* The agent ends the active chunk; the coordinator calls reportCompletion.
FinishRender(w) ==
    /\ up[w] /\ isRendering(w)
    /\ \E state \in {"completed", "failed"} :
         LET k == activeRender[w][1]
         IN IF isLeader[w] /\ db[w].open
            THEN /\ db' = [db EXCEPT ![w] = ReportDirect(@, w, k, state, now)]
                 /\ UNCHANGED pendingReports
            ELSE /\ Len(pendingReports[w]) < MaxPending
                 /\ pendingReports' = [pendingReports EXCEPT ![w] =
                                          Append(@, PendingReport(k, state))]
                 /\ UNCHANGED db
    /\ activeRender' = [activeRender EXCEPT ![w] = <<>>]
    /\ UNCHANGED <<now, up, endpointFile, nodeState, peers, isLeader, wasLeader,
                   leaderDbReady, leaderThread, snapshot, completionQueue,
                   failureQueue, tracker, dispatchQueue, markedDead, lastOp,
                   submitted, ticks, crashes, localTags, configTags, suspendedNodes, failureLog, snapFiles, pollRun, flushBatch, arrivals>>

\* MonitorApp::getLeaderEndpoint: the node the reports are posted to
\* (NullStr when there is none).
getLeaderEndpoint(n) ==
    LET c == {i \in DOMAIN NodeSeq :
                 /\ peers[n][NodeSeq[i]].present
                 /\ peers[n][NodeSeq[i]].is_leader
                 /\ peers[n][NodeSeq[i]].is_alive}
    IN IF c # {} THEN NodeSeq[Min(c)]
       ELSE IF isLeader[n] THEN n ELSE NullStr

\* HttpServer::requireLeader on node t, for a request that reaches it.
Answers200(t) == up[t] /\ isLeader[t]

OfState(q, state) == SelectSeq(q, LAMBDA r : r.state = state)

AsInbound(q, from) ==
    [i \in DOMAIN q |-> CompletionReport(from, q[i].jobId, q[i].frameStart, q[i].frameEnd)]

\* Mutant: the report whose POST failed is dropped with the delivered ones.
UnsentWithoutFailed(batch, k) == SubSeq(batch, k + 2, Len(batch))

\* What is left in the queue after a flush that got 200 for the first k
\* reports of the batch.
Unsent(batch, k) == SubSeq(batch, k + 1, Len(batch))

\* MonitorApp::flushCompletionReports on node n.  The first k reports get
\* 200; the next one fails, either before it reaches the leader or after the
\* handler ran and the reply was lost (dup).
flushCompletionReports(n, k, dup) ==
    /\ up[n] /\ pendingReports[n] # <<>>
    /\ getLeaderEndpoint(n) # NullStr
    /\ LET t == getLeaderEndpoint(n)
           batch == pendingReports[n]
       IN /\ k \in 0..Len(batch)
          /\ (k > 0 \/ dup) => Answers200(t)
          /\ dup => k < Len(batch)
          /\ LET got == SubSeq(batch, 1, IF dup THEN k + 1 ELSE k)
             IN /\ Len(completionQueue[t]) + Len(failureQueue[t]) + Len(got)
                     <= MaxInbound
                /\ completionQueue' = [completionQueue EXCEPT ![t] =
                       @ \o AsInbound(OfState(got, "completed"), n)]
                /\ failureQueue' = [failureQueue EXCEPT ![t] =
                       @ \o AsInbound(OfState(got, "failed"), n)]
          /\ pendingReports' = [pendingReports EXCEPT ![n] = Unsent(batch, k)]
    /\ UNCHANGED <<now, up, endpointFile, nodeState, peers, isLeader, wasLeader,
                   leaderDbReady, leaderThread, db, snapshot, tracker,
                   dispatchQueue, activeRender, markedDead, lastOp, submitted,
                   ticks, crashes, localTags, configTags, suspendedNodes, failureLog, snapFiles, pollRun, flushBatch, arrivals>>

Flush(n) ==
    \E k \in 0..MaxPending, dup \in BOOLEAN : flushCompletionReports(n, k, dup)

\* -------------------------------------------------------- peer registry
\* discoverPeers on registry ps of node n.
discoverPeers(ps, n) ==
    [w \in Nodes |->
        IF w # n /\ endpointFile[w] /\ ~ps[w].present THEN Discovered ELSE ps[w]]

\* pollPeers, one peer of the polling loop: GET /api/status answered with
\* 200 and well-formed JSON (ok), or not.
PollOutcome(p, w, ok) ==
    IF ~p.present THEN p
    ELSE IF ok
    THEN [buildLocalPeerInfo(w) EXCEPT !.is_leader = p.is_leader]
    ELSE LET f == IF p.failed_polls < DEAD_AFTER_FAILED_POLLS
                  THEN p.failed_polls + 1 ELSE p.failed_polls
         IN [p EXCEPT !.failed_polls = f,
                      !.is_alive = IF f >= DEAD_AFTER_FAILED_POLLS THEN FALSE ELSE @]

\* pollPeers, the polling loop on a network that answers whenever the peer
\* runs.
PollOne(p, w) == PollOutcome(p, w, up[w])

\* Mutant: every dead peer is erased, with or without endpoint.json.
RemoveStaleWithFile(ps) ==
    [w \in Nodes |-> IF ps[w].present /\ ~ps[w].is_alive THEN Absent ELSE ps[w]]

\* pollPeers, the final loop: dead peers without endpoint.json are erased.
RemoveStale(ps) ==
    [w \in Nodes |->
        IF ps[w].present /\ ~ps[w].is_alive /\ ~endpointFile[w] THEN Absent ELSE ps[w]]

pollPeers(ps) == RemoveStale([w \in Nodes |-> PollOne(ps[w], w)])

\* Mutant: the comparator without its "noleader" rule.
RankBeforeWithoutNoleader(a, ta, b, tb) ==
    \/ ("leader" \in ta) /\ ~("leader" \in tb)
    \/ /\ ("leader" \in ta) = ("leader" \in tb)
       /\ NodeIdx(a) < NodeIdx(b)

\* Election rank of recomputeLeader: "leader" tag, then no "noleader" tag,
\* then node id.
RankBefore(a, ta, b, tb) ==
    \/ ("leader" \in ta) /\ ~("leader" \in tb)
    \/ /\ ("leader" \in ta) = ("leader" \in tb)
       /\ ~("noleader" \in ta) /\ ("noleader" \in tb)
    \/ /\ ("leader" \in ta) = ("leader" \in tb)
       /\ ("noleader" \in ta) = ("noleader" \in tb)
       /\ NodeIdx(a) < NodeIdx(b)

\* Mutant: the local node wins whenever no alive peer has better tags.
newLeaderSelfOnTie(ps, n) ==
    LET cand == {n} \cup {w \in Nodes : ps[w].present /\ ps[w].is_alive}
        tagsOf(w) == IF w = n THEN localTags[n] ELSE ps[w].tags
        tagRank(w) == (IF "leader" \in tagsOf(w) THEN 0 ELSE 2)
                      + (IF "noleader" \in tagsOf(w) THEN 1 ELSE 0)
    IN IF \A b \in cand : tagRank(n) <= tagRank(b) THEN n
       ELSE CHOOSE a \in cand :
               \A b \in cand \ {a} : RankBefore(a, tagsOf(a), b, tagsOf(b))

\* The node recomputeLeader elects on node n with registry ps.
newLeader(ps, n) ==
    LET cand == {n} \cup {w \in Nodes : ps[w].present /\ ps[w].is_alive}
        tagsOf(w) == IF w = n THEN localTags[n] ELSE ps[w].tags
    IN CHOOSE a \in cand :
           \A b \in cand \ {a} : RankBefore(a, tagsOf(a), b, tagsOf(b))

recomputeLeader(ps, n) ==
    [w \in Nodes |->
        IF ps[w].present THEN [ps[w] EXCEPT !.is_leader = (w = newLeader(ps, n))]
        ELSE ps[w]]

\* History: peers of n that went from alive to not alive and have not been
\* seen alive since.
NoteDead(n, after, flipped) ==
    (markedDead[n] \cup flipped)
        \ {w \in Nodes : after[w].present /\ after[w].is_alive}

\* One pass of PeerManager::threadFunc on node n, where ok[w] tells whether
\* the poll of peer w is answered.
PeerLoopWith(n, ok) ==
    /\ up[n]
    /\ LET d  == discoverPeers(peers[n], n)
           pl == [w \in Nodes |-> PollOutcome(d[w], w, ok[w])]
           ps == RemoveStale(pl)
       IN /\ peers' = [peers EXCEPT ![n] = recomputeLeader(ps, n)]
          /\ isLeader' = [isLeader EXCEPT ![n] = (newLeader(ps, n) = n)]
          /\ markedDead' = [markedDead EXCEPT ![n] =
                NoteDead(n, ps,
                         {w \in Nodes : d[w].present /\ d[w].is_alive
                                        /\ ~pl[w].is_alive})]
    /\ endpointFile' = [endpointFile EXCEPT ![n] = TRUE]
    /\ UNCHANGED <<now, up, nodeState, wasLeader, leaderDbReady, leaderThread,
                   db, snapshot, completionQueue, failureQueue, tracker,
                   dispatchQueue, activeRender, pendingReports, lastOp,
                   submitted, ticks, crashes, localTags, configTags, suspendedNodes,
                   failureLog, snapFiles, flushBatch, arrivals>>

PeerLoop(n) == PeerLoopWith(n, up) /\ UNCHANGED pollRun

\* processUdpHeartbeat on node n for a heartbeat of node m.
processUdpHeartbeat(p, m) ==
    IF ~p.present
    THEN [Discovered EXCEPT !.node_state = nodeState[m],
                            !.render_state = RenderStateOf(m)]
    ELSE [p EXCEPT !.node_state = nodeState[m], !.render_state = RenderStateOf(m),
                   !.is_alive = TRUE, !.failed_polls = 0]

UdpHeartbeat(m, n) ==
    /\ m # n /\ up[m] /\ up[n]
    /\ peers' = [peers EXCEPT ![n][m] = processUdpHeartbeat(@, m)]
    /\ markedDead' = [markedDead EXCEPT ![n] = @ \ {m}]
    /\ UNCHANGED <<now, up, endpointFile, nodeState, isLeader, wasLeader,
                   leaderDbReady, leaderThread, db, snapshot, completionQueue,
                   failureQueue, tracker, dispatchQueue, activeRender,
                   pendingReports, lastOp, submitted, ticks, crashes, localTags, configTags, suspendedNodes, failureLog, snapFiles, pollRun, flushBatch, arrivals>>

\* processUdpGoodbye on an entry of a registry.
processUdpGoodbye(p) == IF p.present THEN [p EXCEPT !.is_alive = FALSE] ELSE p

\* ------------------------------------------------------- node lifecycle
NoPeers == [w \in Nodes |-> Absent]

NoRecords == [w \in Nodes |-> NoRecord]

\* The process of node m ends: everything it held in memory is gone, the
\* local database file stays on disk.
ProcessGone(m) ==
    /\ up' = [up EXCEPT ![m] = FALSE]
    /\ isLeader' = [isLeader EXCEPT ![m] = FALSE]
    /\ wasLeader' = [wasLeader EXCEPT ![m] = FALSE]
    /\ leaderDbReady' = [leaderDbReady EXCEPT ![m] = FALSE]
    /\ leaderThread' = [leaderThread EXCEPT ![m] = FALSE]
    /\ db' = [db EXCEPT ![m].open = FALSE]
    /\ completionQueue' = [completionQueue EXCEPT ![m] = <<>>]
    /\ failureQueue' = [failureQueue EXCEPT ![m] = <<>>]
    /\ tracker' = [tracker EXCEPT ![m] = NoRecords]
    /\ dispatchQueue' = [dispatchQueue EXCEPT ![m] = <<>>]
    /\ activeRender' = [activeRender EXCEPT ![m] = <<>>]
    /\ pendingReports' = [pendingReports EXCEPT ![m] = <<>>]
    /\ crashes' = crashes + 1

\* MonitorApp::shutdown: stopFarm sends the UDP goodbye, which the nodes in
\* heard receive, and PeerManager::stop removes endpoint.json.
Shutdown(m) ==
    /\ up[m] /\ ~leaderThread[m] /\ crashes < MaxCrashes
    /\ \E heard \in SUBSET {w \in Nodes \ {m} : up[w]} :
         /\ peers' = [n \in Nodes |->
                IF n = m THEN NoPeers
                ELSE IF n \in heard
                THEN [peers[n] EXCEPT ![m] = processUdpGoodbye(@)]
                ELSE peers[n]]
         /\ markedDead' = [n \in Nodes |->
                IF n = m THEN {}
                ELSE IF n \in heard /\ peers[n][m].present /\ peers[n][m].is_alive
                THEN markedDead[n] \cup {m}
                ELSE markedDead[n]]
    /\ endpointFile' = [endpointFile EXCEPT ![m] = FALSE]
    /\ ProcessGone(m)
    /\ UNCHANGED <<now, nodeState, snapshot, lastOp, submitted, ticks, localTags, configTags, suspendedNodes, failureLog, snapFiles, pollRun, flushBatch, arrivals>>

\* The machine of node m loses power: no goodbye, endpoint.json stays.
Crash(m) ==
    /\ up[m] /\ crashes < MaxCrashes
    /\ peers' = [peers EXCEPT ![m] = NoPeers]
    /\ markedDead' = [markedDead EXCEPT ![m] = {}]
    /\ ProcessGone(m)
    /\ UNCHANGED <<now, endpointFile, nodeState, snapshot, lastOp, submitted, ticks, localTags, configTags, suspendedNodes, failureLog, snapFiles, pollRun, flushBatch, arrivals>>

\* --------------------------------------------------- leader transitions
\* MonitorApp::update, leader transition detection: onBecomeLeader starts
\* the background open/restore, onLoseLeadership closes the store.  Both
\* join the previous background thread first.
LeaderTransition(n) ==
    /\ up[n] /\ isLeader[n] # wasLeader[n] /\ ~leaderThread[n]
    /\ wasLeader' = [wasLeader EXCEPT ![n] = isLeader[n]]
    /\ leaderDbReady' = [leaderDbReady EXCEPT ![n] = FALSE]
    /\ leaderThread' = [leaderThread EXCEPT ![n] = isLeader[n]]
    /\ db' = IF isLeader[n] THEN db ELSE [db EXCEPT ![n].open = FALSE]
    /\ UNCHANGED <<now, up, endpointFile, nodeState, peers, isLeader, snapshot,
                   completionQueue, failureQueue, tracker, dispatchQueue,
                   activeRender, pendingReports, markedDead, lastOp, submitted,
                   ticks, crashes, localTags, configTags, suspendedNodes, failureLog, snapFiles, pollRun, flushBatch, arrivals>>

\* Mutant: the background thread reports the store ready whatever happened.
LeaderDbInitAlwaysReady(n, restoreOk, openOk) ==
    /\ up[n] /\ leaderThread[n]
    /\ db' = [db EXCEPT ![n] = IF snapshot.open /\ restoreOk THEN restoreFrom(snapshot)
                                ELSE [@ EXCEPT !.open = openOk]]
    /\ leaderDbReady' = [leaderDbReady EXCEPT ![n] = TRUE]
    /\ leaderThread' = [leaderThread EXCEPT ![n] = FALSE]
    /\ UNCHANGED <<now, up, endpointFile, nodeState, peers, isLeader, wasLeader,
                   snapshot, completionQueue, failureQueue, tracker,
                   dispatchQueue, activeRender, pendingReports, markedDead,
                   lastOp, submitted, ticks, crashes, localTags, configTags, suspendedNodes, failureLog, snapFiles, pollRun, flushBatch, arrivals>>

\* The background thread of onBecomeLeader: restore from the snapshot when
\* the file exists (restoreOk: the copy and the open succeed), else, or when
\* the restore fails, open the local database (openOk: the open succeeds).
\* A failed open leaves the store closed and leader_db_ready false.
LeaderDbInitWith(n, restoreOk, openOk) ==
    /\ up[n] /\ leaderThread[n]
    /\ db' = [db EXCEPT ![n] = IF snapshot.open /\ restoreOk THEN restoreFrom(snapshot)
                                ELSE [@ EXCEPT !.open = openOk]]
    /\ leaderDbReady' = [leaderDbReady EXCEPT ![n] = (snapshot.open /\ restoreOk) \/ openOk]
    /\ leaderThread' = [leaderThread EXCEPT ![n] = FALSE]
    /\ UNCHANGED <<now, up, endpointFile, nodeState, peers, isLeader, wasLeader,
                   snapshot, completionQueue, failureQueue, tracker,
                   dispatchQueue, activeRender, pendingReports, markedDead,
                   lastOp, submitted, ticks, crashes, localTags, configTags, suspendedNodes, failureLog, snapFiles, pollRun, flushBatch, arrivals>>

\* The background thread on a disk that works.
LeaderDbInit(n) == LeaderDbInitWith(n, TRUE, TRUE)

\* ---------------------------------------------------------- job controls
\* MonitorApp::retryFailedChunks entered on the leader.
RetryFailed(n) ==
    /\ up[n] /\ isLeader[n] /\ db[n].open
    /\ \E j \in JobIds :
         /\ HasJob(db[n], j)
         /\ db' = [db EXCEPT ![n] = retryFailedChunks(@, j)]
         /\ db'[n] # db[n]
    /\ UNCHANGED <<now, up, endpointFile, nodeState, peers, isLeader, wasLeader,
                   leaderDbReady, leaderThread, snapshot, completionQueue,
                   failureQueue, tracker, dispatchQueue, activeRender,
                   pendingReports, markedDead, lastOp, submitted, ticks, crashes, localTags, configTags, suspendedNodes, failureLog, snapFiles, pollRun, flushBatch, arrivals>>

AdvanceClock ==
    /\ now < MaxTime
    /\ now' = now + 1
    /\ UNCHANGED <<up, endpointFile, nodeState, peers, isLeader, wasLeader,
                   leaderDbReady, leaderThread, db, snapshot, completionQueue,
                   failureQueue, tracker, dispatchQueue, activeRender,
                   pendingReports, markedDead, lastOp, submitted, ticks, crashes, localTags, configTags, suspendedNodes, failureLog, snapFiles, pollRun, flushBatch, arrivals>>

\* ---------------------------------------------------------- specification
\* Every node has just started its farm: endpoint.json written, registry
\* empty, nobody elected, store closed, no snapshot yet.  A node that goes
\* down stays down for the rest of the behaviour.
Init ==
    /\ now = 1
    /\ up = [n \in Nodes |-> TRUE]
    /\ endpointFile = [n \in Nodes |-> TRUE]
    /\ nodeState = [n \in Nodes |-> "active"]
    /\ peers = [n \in Nodes |-> NoPeers]
    /\ isLeader = [n \in Nodes |-> FALSE]
    /\ wasLeader = [n \in Nodes |-> FALSE]
    /\ leaderDbReady = [n \in Nodes |-> FALSE]
    /\ leaderThread = [n \in Nodes |-> FALSE]
    /\ db = [n \in Nodes |-> EmptyStore]
    /\ snapshot = EmptyStore
    /\ completionQueue = [n \in Nodes |-> <<>>]
    /\ failureQueue = [n \in Nodes |-> <<>>]
    /\ tracker = [n \in Nodes |-> NoRecords]
    /\ dispatchQueue = [n \in Nodes |-> <<>>]
    /\ activeRender = [n \in Nodes |-> <<>>]
    /\ pendingReports = [n \in Nodes |-> <<>>]
    /\ markedDead = [n \in Nodes |-> {}]
    /\ lastOp = NoOp
    /\ submitted = 0
    /\ ticks = 0
    /\ crashes = 0
    /\ localTags = NodeTags
    /\ configTags = NodeTags
    /\ suspendedNodes = {}
    /\ failureLog = [w \in Nodes |-> <<>>]
    /\ snapFiles = NoFiles
    /\ pollRun = [n \in Nodes |-> [w \in Nodes |-> 0]]
    /\ flushBatch = [n \in Nodes |-> <<>>]
    /\ arrivals = [n \in Nodes |-> <<>>]

Next ==
    \/ AdvanceClock
    \/ \E n \in Nodes : Submit(n)
    \/ \E n \in Nodes : Tick(n)
    \/ \E n \in Nodes : StartRender(n)
    \/ \E n \in Nodes : FinishRender(n)
    \/ \E n \in Nodes : Flush(n)
    \/ \E n \in Nodes : PeerLoop(n)
    \/ \E m \in Nodes, n \in Nodes : UdpHeartbeat(m, n)
    \/ \E n \in Nodes : Shutdown(n)
    \/ \E n \in Nodes : Crash(n)
    \/ \E n \in Nodes : LeaderTransition(n)
    \/ \E n \in Nodes : LeaderDbInit(n)
    \/ \E n \in Nodes : RetryFailed(n)

Spec == Init /\ [][Next]_vars

\* ------------------------------------------------ fair specification
\* The farm on a network that delivers: the dispatch tick posts its
\* assignments successfully, and every loop of the program keeps running on
\* the nodes that are up (main loop: leader transition, dispatch tick,
\* render coordinator; PeerManager thread; onBecomeLeader thread; HTTP worker
\* thread, whose flush gets through again and again).  The weak fairness of
\* the tick is written out with its enabling condition.
Reliable == [w \in Nodes |-> "ok"]

FairTick(n) == (\E snap \in BOOLEAN : update(n, Reliable, snap)) /\ UNCHANGED ticks

Delivered(n) == flushCompletionReports(n, Len(pendingReports[n]), FALSE)

\* ENABLED <<FairTick(n)>>_vars: the tick runs and changes something.
TickEnabled(n) ==
    /\ CanDispatch(n)
    /\ \A w \in Nodes : Len(dispatchQueue[w]) < MaxQueue
    /\ LET t == TickResult(n, Reliable)
       IN \/ <<t.db, t.trk, t.dq>> # <<db[n], tracker[n], dispatchQueue>>
          \/ snapshotTo(t.db) # snapshot
          \/ completionQueue[n] # <<>>
          \/ failureQueue[n] # <<>>
          \/ markedDead[n] # {}

FairNext ==
    \/ \E n \in Nodes : Submit(n)
    \/ \E n \in Nodes : FairTick(n)
    \/ \E n \in Nodes : StartRender(n)
    \/ \E n \in Nodes : FinishRender(n)
    \/ \E n \in Nodes : Flush(n)
    \/ \E n \in Nodes : PeerLoop(n)
    \/ \E n \in Nodes : Crash(n)
    \/ \E n \in Nodes : LeaderTransition(n)
    \/ \E n \in Nodes : LeaderDbInit(n)

Fairness ==
    \A n \in Nodes :
        /\ WF_vars(PeerLoop(n))
        /\ WF_vars(LeaderTransition(n))
        /\ WF_vars(LeaderDbInit(n))
        /\ ([]<>(~TickEnabled(n)) \/ []<><<FairTick(n)>>_vars)
        /\ WF_vars(StartRender(n))
        /\ WF_vars(FinishRender(n))
        /\ SF_vars(Delivered(n))

FairSpec == Init /\ [][FairNext]_vars /\ Fairness

\* ------------------------------------------- election specification
\* recomputeLeader on every registry and tag configuration of the nodes:
\* each node sees each other node as unknown, dead or alive, active or
\* stopped, with any of the election tags, and has any election tags itself.
ElectionTags == {"leader", "noleader"}

PeerViews ==
    {Absent} \cup
    {[Discovered EXCEPT !.is_alive = al, !.tags = t, !.node_state = st] :
        al \in BOOLEAN, t \in SUBSET ElectionTags, st \in {"active", "stopped"}}

\* The last two statements of one pass of PeerManager::threadFunc on node n.
Elect(n) ==
    /\ up[n]
    /\ peers' = [peers EXCEPT ![n] = recomputeLeader(@, n)]
    /\ isLeader' = [isLeader EXCEPT ![n] = (newLeader(peers[n], n) = n)]
    /\ UNCHANGED <<now, up, endpointFile, nodeState, wasLeader, leaderDbReady,
                   leaderThread, db, snapshot, completionQueue, failureQueue,
                   tracker, dispatchQueue, activeRender, pendingReports,
                   markedDead, lastOp, submitted, ticks, crashes, localTags, configTags, suspendedNodes, failureLog, snapFiles, pollRun, flushBatch, arrivals>>

ElectInit ==
    /\ now = 1
    /\ up = [n \in Nodes |-> TRUE]
    /\ endpointFile = [n \in Nodes |-> TRUE]
    /\ nodeState \in [Nodes -> {"active", "stopped"}]
    /\ peers \in [Nodes -> [Nodes -> PeerViews]]
    /\ \A n \in Nodes : peers[n][n] = Absent
    /\ isLeader = [n \in Nodes |-> FALSE]
    /\ wasLeader = [n \in Nodes |-> FALSE]
    /\ leaderDbReady = [n \in Nodes |-> FALSE]
    /\ leaderThread = [n \in Nodes |-> FALSE]
    /\ db = [n \in Nodes |-> EmptyStore]
    /\ snapshot = EmptyStore
    /\ completionQueue = [n \in Nodes |-> <<>>]
    /\ failureQueue = [n \in Nodes |-> <<>>]
    /\ tracker = [n \in Nodes |-> NoRecords]
    /\ dispatchQueue = [n \in Nodes |-> <<>>]
    /\ activeRender = [n \in Nodes |-> <<>>]
    /\ pendingReports = [n \in Nodes |-> <<>>]
    /\ markedDead = [n \in Nodes |-> {}]
    /\ lastOp = NoOp
    /\ submitted = 0
    /\ ticks = 0
    /\ crashes = 0
    /\ localTags \in [Nodes -> SUBSET ElectionTags]
    /\ configTags = localTags
    /\ suspendedNodes = {}
    /\ failureLog = [w \in Nodes |-> <<>>]
    /\ snapFiles = NoFiles
    /\ pollRun = [n \in Nodes |-> [w \in Nodes |-> 0]]
    /\ flushBatch = [n \in Nodes |-> <<>>]
    /\ arrivals = [n \in Nodes |-> <<>>]

ElectNext == \E n \in Nodes : Elect(n)

ElectSpec == ElectInit /\ [][ElectNext]_vars

\* ------------------------------------------- store-level specification
\* The calls the program makes on the leader's store, one call per step, on
\* the store of node StoreNode after one submission.
StoreNode == NodeSeq[1]

\* Tags a job template can require and a node can carry.
JobTags == {"ae", "blend"}

StoreKeys == {Key(db[StoreNode].chunks[i]) : i \in DOMAIN db[StoreNode].chunks}

Called(kind, k) ==
    [NoOp EXCEPT !.kind = kind, !.job_id = k[1], !.frame_start = k[2],
                 !.frame_end = k[3], !.t = now, !.n = lastOp.n + 1]

StoreUnchanged ==
    UNCHANGED <<up, endpointFile, nodeState, peers, isLeader, wasLeader,
                leaderDbReady, leaderThread, snapshot, completionQueue,
                failureQueue, tracker, dispatchQueue, activeRender,
                pendingReports, markedDead, submitted, ticks, crashes, localTags, configTags, suspendedNodes, failureLog, snapFiles, pollRun, flushBatch, arrivals>>

\* assignWork: findNextPendingChunkForNode for peer w, whose tags the leader
\* knows as tags, then assignChunk.
StoreAssign(w, tags) ==
    /\ lastOp.n < MaxCalls
    /\ LET idx == findNextPendingChunkForNode(db[StoreNode], tags, w)
       IN /\ idx # 0
          /\ db' = [db EXCEPT ![StoreNode] = assignChunk(@, idx, w, now)]
          /\ lastOp' = Called("assignChunk", Key(db[StoreNode].chunks[idx]))
    /\ UNCHANGED now /\ StoreUnchanged

\* processReports / reportCompletion: completeChunk.
StoreComplete(k) ==
    /\ lastOp.n < MaxCalls
    /\ LET s2 == completeChunk(db[StoreNode], k[1], k[2], k[3], now)
           rep == /\ lastOp.kind = "completeChunk" /\ lastOp.job_id = k[1]
                  /\ lastOp.frame_start = k[2] /\ lastOp.frame_end = k[3]
       IN /\ db' = [db EXCEPT ![StoreNode] = s2]
          /\ lastOp' = [Called("completeChunk", k) EXCEPT
                          !.again = rep,
                          !.first_t = IF rep THEN lastOp.first_t ELSE now,
                          !.acted = IF rep THEN lastOp.acted
                                    ELSE s2 # db[StoreNode]]
    /\ UNCHANGED now /\ StoreUnchanged

\* processReports / reportCompletion (node w failed the chunk) and the
\* revert of assignWork (no node, sentinel 999).
StoreFail(k, w) ==
    /\ lastOp.n < MaxCalls
    /\ db' = [db EXCEPT ![StoreNode] =
                IF w = NullStr
                THEN failChunk(@, k[1], k[2], k[3], REVERT_MAX_RETRIES, NullStr)
                ELSE failChunk(@, k[1], k[2], k[3], LookupMaxRetries(@, k[1]), w)]
    /\ lastOp' = Called("failChunk", k)
    /\ UNCHANGED now /\ StoreUnchanged

\* detectDeadWorkers / retryFailedChunks.
StoreSweep(w) ==
    /\ lastOp.n < MaxCalls
    /\ db' = [db EXCEPT ![StoreNode] =
                IF w = NullStr THEN retryFailedChunks(@, JobIds1)
                ELSE reassignDeadWorkerChunks(@, w)]
    /\ db'[StoreNode] # db[StoreNode]
    /\ lastOp' = [NoOp EXCEPT !.kind = "sweep", !.t = now, !.n = lastOp.n + 1]
    /\ UNCHANGED now /\ StoreUnchanged

StoreClock ==
    /\ now < MaxTime
    /\ now' = now + 1
    /\ UNCHANGED <<db, lastOp>> /\ StoreUnchanged

\* Node StoreNode leads with the open store s; nothing is queued anywhere.
StoreInitWithTracker(s, trk) ==
    /\ now = 1
    /\ up = [n \in Nodes |-> TRUE]
    /\ endpointFile = [n \in Nodes |-> TRUE]
    /\ nodeState = [n \in Nodes |-> "active"]
    /\ peers = [n \in Nodes |-> NoPeers]
    /\ isLeader = [n \in Nodes |-> n = StoreNode]
    /\ wasLeader = [n \in Nodes |-> n = StoreNode]
    /\ leaderDbReady = [n \in Nodes |-> n = StoreNode]
    /\ leaderThread = [n \in Nodes |-> FALSE]
    /\ db = [n \in Nodes |-> IF n = StoreNode THEN s ELSE EmptyStore]
    /\ snapshot = EmptyStore
    /\ completionQueue = [n \in Nodes |-> <<>>]
    /\ failureQueue = [n \in Nodes |-> <<>>]
    /\ tracker = trk
    /\ dispatchQueue = [n \in Nodes |-> <<>>]
    /\ activeRender = [n \in Nodes |-> <<>>]
    /\ pendingReports = [n \in Nodes |-> <<>>]
    /\ markedDead = [n \in Nodes |-> {}]
    /\ lastOp = NoOp
    /\ submitted = Len(s.jobs)
    /\ ticks = 0
    /\ crashes = 0
    /\ localTags = NodeTags
    /\ configTags = NodeTags
    /\ suspendedNodes = {}
    /\ failureLog = [w \in Nodes |-> <<>>]
    /\ snapFiles = NoFiles
    /\ pollRun = [n \in Nodes |-> [w \in Nodes |-> 0]]
    /\ flushBatch = [n \in Nodes |-> <<>>]
    /\ arrivals = [n \in Nodes |-> <<>>]

StoreInitWith(s) == StoreInitWithTracker(s, [n \in Nodes |-> NoRecords])

StoreInit ==
    \E cs \in 1..StoreFrames, mr \in 0..MaxMaxRetries, tr \in SUBSET JobTags :
        StoreInitWith(submitJob([EmptyStore EXCEPT !.open = TRUE], JobIds1,
                                [Manifest(JobIds1, cs, mr) EXCEPT
                                    !.frame_end = StoreFrames,
                                    !.tags_required = tr],
                                DEFAULT_PRIORITY, 1))

StoreNext ==
    \/ StoreClock
    \/ \E w \in Nodes, tags \in SUBSET JobTags : StoreAssign(w, tags)
    \/ \E k \in StoreKeys : StoreComplete(k)
    \/ \E k \in StoreKeys, w \in Nodes \cup {NullStr} : StoreFail(k, w)
    \/ \E w \in Nodes \cup {NullStr} : StoreSweep(w)

StoreSpec == StoreInit /\ [][StoreNext]_vars

\* ------------------------------------------ job-control specification
\* The store of the leader under the operator's job controls, the dispatch
\* of chunks and their completion reports, one call per step.
ControlStates == {"paused", "active", "cancelled", "archived"}

\* MonitorApp::pauseJob, resumeJob, cancelJob, archiveJob on the leader.
JobControl(newState) ==
    /\ lastOp.n < MaxCalls
    /\ isLeader[StoreNode] /\ db[StoreNode].open
    /\ db' = [db EXCEPT ![StoreNode] = updateJobState(@, JobIds1, newState)]
    /\ lastOp' = [NoOp EXCEPT !.kind = newState, !.job_id = JobIds1,
                              !.t = now, !.n = lastOp.n + 1]
    /\ UNCHANGED now /\ StoreUnchanged

\* DispatchManager::checkJobCompletions.
StoreCheck ==
    /\ lastOp.n < MaxCalls
    /\ db' = [db EXCEPT ![StoreNode] = checkJobCompletions(@)]
    /\ db'[StoreNode] # db[StoreNode]
    /\ lastOp' = [NoOp EXCEPT !.kind = "checkJobCompletions", !.job_id = JobIds1,
                              !.t = now, !.n = lastOp.n + 1]
    /\ UNCHANGED now /\ StoreUnchanged

ControlInit ==
    /\ StoreInit
    /\ getJob(db[StoreNode], JobIds1).manifest.tags_required = {}

ControlNext ==
    \/ \E w \in Nodes : StoreAssign(w, NodeTags[w])
    \/ \E k \in StoreKeys : StoreComplete(k)
    \/ \E st \in ControlStates : JobControl(st)
    \/ StoreCheck

ControlSpec == ControlInit /\ [][ControlNext]_vars

\* ------------------------------------------ retry-failed specification
\* The leader's store with two jobs, one of two chunks and one of one chunk,
\* under failure, completion and frame reports, dispatch and retry-failed.
OtherJob == "j2"

RetryJobs == {JobIds1, OtherJob}

\* MonitorApp::retryFailedChunks for job j on the leader.
StoreRetryFailed(j) ==
    /\ lastOp.n < MaxCalls
    /\ isLeader[StoreNode] /\ db[StoreNode].open
    /\ db' = [db EXCEPT ![StoreNode] = retryFailedChunks(@, j)]
    /\ lastOp' = [NoOp EXCEPT !.kind = "retryFailedChunks", !.job_id = j,
                              !.t = now, !.n = lastOp.n + 1]
    /\ UNCHANGED now /\ StoreUnchanged

\* processReports, the frame loop: one frame report for job j.
StoreAddFrame(j, f) ==
    /\ lastOp.n < MaxCalls
    /\ db' = [db EXCEPT ![StoreNode] = addCompletedFramesBatch(@, j, <<f>>)]
    /\ db'[StoreNode] # db[StoreNode]
    /\ lastOp' = [NoOp EXCEPT !.kind = "addCompletedFrames", !.job_id = j,
                              !.t = now, !.n = lastOp.n + 1]
    /\ UNCHANGED now /\ StoreUnchanged

RetryInit ==
    \E mr \in 1..MaxMaxRetries :
        StoreInitWith(
            submitJob(
                submitJob([EmptyStore EXCEPT !.open = TRUE], JobIds1,
                          [Manifest(JobIds1, 1, mr) EXCEPT !.frame_end = StoreFrames],
                          DEFAULT_PRIORITY, 1),
                OtherJob,
                [Manifest(OtherJob, StoreFrames, 0) EXCEPT !.frame_end = StoreFrames],
                DEFAULT_PRIORITY, 1))

RetryNext ==
    \/ \E w \in Nodes : StoreAssign(w, NodeTags[w])
    \/ \E k \in StoreKeys : StoreComplete(k)
    \/ \E k \in StoreKeys, w \in Nodes : StoreFail(k, w)
    \/ \E j \in RetryJobs, f \in 1..StoreFrames : StoreAddFrame(j, f)
    \/ \E j \in RetryJobs : StoreRetryFailed(j)

RetrySpec == RetryInit /\ [][RetryNext]_vars

\* ------------------------------------------- failure tracker specification
\* The leader's failure tracker under recordFailure and clearNode calls,
\* with a clock that moves by one millisecond, by the length of the window,
\* or by one millisecond more than that.
MaxTrackerCalls == 8

ClockSteps == {1, SUSPEND_WINDOW_MS, SUSPEND_WINDOW_MS + 1}

TrackerUnchanged ==
    UNCHANGED <<up, endpointFile, nodeState, peers, isLeader, wasLeader,
                leaderDbReady, leaderThread, db, snapshot, completionQueue,
                failureQueue, dispatchQueue, activeRender, pendingReports,
                markedDead, submitted, ticks, crashes, localTags, configTags, snapFiles, pollRun, flushBatch, arrivals>>

TrackerCalled(kind) == [NoOp EXCEPT !.kind = kind, !.t = now, !.n = lastOp.n + 1]

\* processReports: recordFailure(w, nowMs).
TrackerFail(w) ==
    /\ lastOp.n < MaxTrackerCalls
    /\ tracker' = [tracker EXCEPT ![StoreNode][w] = recordFailure(@, now)]
    /\ suspendedNodes' = suspendedNodes
                             \cup NewlySuspended(tracker[StoreNode], tracker'[StoreNode])
    /\ failureLog' = [failureLog EXCEPT ![w] = Append(@, now)]
    /\ lastOp' = TrackerCalled("recordFailure")
    /\ UNCHANGED now /\ TrackerUnchanged

\* MonitorApp::unsuspendNode on the leader: clearNode(w).
TrackerClear(w) ==
    /\ lastOp.n < MaxTrackerCalls
    /\ isLeader[StoreNode]
    /\ tracker[StoreNode][w] # NoRecord
    /\ tracker' = [tracker EXCEPT ![StoreNode] = clearNode(@, w)]
    /\ suspendedNodes' = suspendedNodes \ {w}
    /\ failureLog' = [failureLog EXCEPT ![w] = <<>>]
    /\ lastOp' = TrackerCalled("clearNode")
    /\ UNCHANGED now /\ TrackerUnchanged

TrackerClock(d) ==
    /\ lastOp.n < MaxTrackerCalls
    /\ now' = now + d
    /\ lastOp' = TrackerCalled("clock")
    /\ UNCHANGED <<tracker, suspendedNodes, failureLog>> /\ TrackerUnchanged

TrackerInit == StoreInitWith([EmptyStore EXCEPT !.open = TRUE])

TrackerNext ==
    \/ \E w \in Nodes : TrackerFail(w)
    \/ \E w \in Nodes : TrackerClear(w)
    \/ \E d \in ClockSteps : TrackerClock(d)

TrackerSpec == TrackerInit /\ [][TrackerNext]_vars

\* --------------------------------------------- suspension specification
\* The farm after one submission, with failure reports for the first chunk
\* posted to the leader, the operator's unsuspend on the leader, and a
\* leader that can go down.
MaxFailureQueue == 5

\* POST /api/dispatch/failed on leader n: a failure report of worker w for
\* chunk k is queued for the next tick.
QueueFailure(n, w, k) ==
    /\ Answers200(n)
    /\ Len(failureQueue[n]) < MaxFailureQueue
    /\ failureQueue' = [failureQueue EXCEPT ![n] =
                           Append(@, CompletionReport(w, k[1], k[2], k[3]))]
    /\ UNCHANGED <<now, up, endpointFile, nodeState, peers, isLeader, wasLeader,
                   leaderDbReady, leaderThread, db, snapshot, completionQueue,
                   tracker, dispatchQueue, activeRender, pendingReports,
                   markedDead, lastOp, submitted, ticks, crashes, localTags, configTags, suspendedNodes, failureLog, snapFiles, pollRun, flushBatch, arrivals>>

\* MonitorApp::unsuspendNode(w) on leader n.
Unsuspend(n, w) ==
    /\ up[n] /\ isLeader[n]
    /\ tracker[n][w] # NoRecord
    /\ tracker' = [tracker EXCEPT ![n] = clearNode(@, w)]
    /\ suspendedNodes' = suspendedNodes \ {w}
    /\ UNCHANGED <<now, up, endpointFile, nodeState, peers, isLeader, wasLeader,
                   leaderDbReady, leaderThread, db, snapshot, completionQueue,
                   failureQueue, dispatchQueue, activeRender, pendingReports,
                   markedDead, lastOp, submitted, ticks, crashes, localTags, configTags,
                   failureLog, snapFiles, pollRun, flushBatch, arrivals>>

SuspendNext ==
    \/ \E n \in Nodes : \E w \in Nodes \ {n} :
          /\ db[n].chunks # <<>>
          /\ QueueFailure(n, w, Key(db[n].chunks[1]))
    \/ \E n \in Nodes, w \in Nodes : Unsuspend(n, w)
    \/ \E n \in Nodes : Tick(n)
    \/ \E n \in Nodes : PeerLoop(n)
    \/ \E n \in Nodes : Crash(n)
    \/ \E n \in Nodes : LeaderTransition(n)
    \/ \E n \in Nodes : LeaderDbInit(n)

SuspendInit ==
    StoreInitWith(submitJob([EmptyStore EXCEPT !.open = TRUE], JobIds1,
                            [Manifest(JobIds1, 1, MaxMaxRetries) EXCEPT
                                !.frame_end = StoreFrames],
                            DEFAULT_PRIORITY, 1))

SuspendSpec == SuspendInit /\ [][SuspendNext]_vars

\* ------------------------------------------- submission specification
\* Submissions of any frame range with frame_start <= frame_end and any
\* chunk_size >= 1 within the bounds, entered on the leader.
MaxSubmitFrame == 4

MaxChunkSize == 5

SubmitFrames == 0..MaxSubmitFrame

\* DispatchManager::submitJob for job j with the drawn range and chunk size.
SubmitRange(j, fs, fe, cs) ==
    /\ isLeader[StoreNode] /\ db[StoreNode].open
    /\ ~HasJob(db[StoreNode], j)
    /\ db' = [db EXCEPT ![StoreNode] =
                submitJob(@, j, [Manifest(j, cs, DEFAULT_MAX_RETRIES) EXCEPT
                                    !.frame_start = fs, !.frame_end = fe],
                          DEFAULT_PRIORITY, now)]
    /\ submitted' = submitted + 1
    /\ UNCHANGED <<now, up, endpointFile, nodeState, peers, isLeader, wasLeader,
                   leaderDbReady, leaderThread, snapshot, completionQueue,
                   failureQueue, tracker, dispatchQueue, activeRender,
                   pendingReports, markedDead, lastOp, ticks, crashes, localTags, configTags, suspendedNodes, failureLog, snapFiles, pollRun, flushBatch, arrivals>>

SubmitInit == StoreInitWith([EmptyStore EXCEPT !.open = TRUE])

SubmitNext ==
    \E j \in {JobIds1, OtherJob}, fs \in SubmitFrames, cs \in 1..MaxChunkSize :
        \E fe \in {f \in SubmitFrames : fs <= f} : SubmitRange(j, fs, fe, cs)

SubmitSpec == SubmitInit /\ [][SubmitNext]_vars

\* --------------------------------------------- open-failure specification
\* The farm of Spec on a disk where the restore and the open of the store
\* can fail when a node becomes leader.
OpenFailNext ==
    \/ Next
    \/ \E n \in Nodes, restoreOk \in BOOLEAN : LeaderDbInitWith(n, restoreOk, FALSE)
    \/ \E n \in Nodes : LeaderDbInitWith(n, FALSE, TRUE)

OpenFailSpec == Init /\ [][OpenFailNext]_vars

\* -------------------------------------------- snapshot-file specification
\* doSnapshot and restoreFrom on the files themselves.  A database image is
\* ImagePages pages long; copy_file writes its destination page by page
\* after truncating it.
ImagePages == 2

MaxSnapshots == 3

MaxCopyTasks == 2

MaxRestores == 2

\* The image snapshotTo writes for the store as it is at snapshot v.
Image(v) == [i \in 1..ImagePages |-> v]

SnapUnchanged ==
    UNCHANGED <<now, up, endpointFile, nodeState, peers, isLeader, wasLeader,
                leaderDbReady, leaderThread, db, snapshot, completionQueue,
                failureQueue, tracker, dispatchQueue, activeRender,
                pendingReports, markedDead, lastOp, submitted, ticks, crashes,
                localTags, configTags, suspendedNodes, failureLog, pollRun, flushBatch,
                arrivals>>

\* DispatchManager::doSnapshot on the leader: snapshotTo(localTmp) writes the
\* whole image into snapshot_tmp.db, then the detached copy thread starts.
\* pos is the number of pages the thread has copied; held is the content of
\* the temp file it still reads after the file was removed under it.
DoSnapshot(n) ==
    /\ CanDispatch(n)
    /\ snapFiles.version < MaxSnapshots
    /\ Len(snapFiles.tasks) < MaxCopyTasks
    /\ snapFiles' = [snapFiles EXCEPT
                        !.version = @ + 1,
                        !.tmp = Image(snapFiles.version + 1),
                        !.tasks = Append(@, [pos |-> 0, held |-> <<>>])]
    /\ SnapUnchanged

\* The temp file as copy task t reads it.
SourceOf(t) == IF t.held # <<>> THEN t.held ELSE snapFiles.tmp

\* One page of copy_file(localTmp, snapshotPath, overwrite_existing) in copy
\* task i; the first page comes with the truncation of the destination.  A
\* missing temp file makes copy_file fail and leaves the destination alone.
CopyPage(i) ==
    /\ i \in DOMAIN snapFiles.tasks
    /\ LET t == snapFiles.tasks[i]
           src == SourceOf(t)
       IN /\ t.pos < ImagePages
          /\ IF src = <<>>
             THEN snapFiles' = [snapFiles EXCEPT !.tasks[i].pos = ImagePages]
             ELSE snapFiles' = [snapFiles EXCEPT
                      !.shared = IF t.pos = 0 THEN <<src[1]>>
                                 ELSE Append(SubSeq(@, 1, Min({Len(@), t.pos})),
                                             src[t.pos + 1]),
                      !.tasks[i].pos = t.pos + 1]
    /\ SnapUnchanged

\* The end of copy task i: remove(localTmp).  A task that is still reading
\* the file either keeps reading the removed file (held) or, where an open
\* file cannot be removed, makes the remove fail (removed = FALSE).
RemoveTmp(i, removed) ==
    /\ i \in DOMAIN snapFiles.tasks
    /\ snapFiles.tasks[i].pos = ImagePages
    /\ LET reading(j) == /\ j # i
                         /\ snapFiles.tasks[j].pos \in 1..(ImagePages - 1)
                         /\ snapFiles.tasks[j].held = <<>>
           rest == [j \in DOMAIN snapFiles.tasks |->
                       IF removed /\ reading(j)
                       THEN [snapFiles.tasks[j] EXCEPT !.held = snapFiles.tmp]
                       ELSE snapFiles.tasks[j]]
       IN /\ ~removed => \E j \in DOMAIN snapFiles.tasks : reading(j)
          /\ snapFiles' = [snapFiles EXCEPT
                              !.tmp = IF removed THEN <<>> ELSE @,
                              !.tasks = SelectSeq([j \in DOMAIN rest |->
                                                      [rest[j] EXCEPT !.pos =
                                                          IF j = i THEN ImagePages + 1 ELSE @]],
                                                  LAMBDA t : t.pos <= ImagePages)]
    /\ SnapUnchanged

\* DatabaseManager::restoreFrom on node n: the snapshot file as it is now is
\* copied over the local database file.
RestoreFile(n) ==
    /\ up[n] /\ n # StoreNode
    /\ snapFiles.restores < MaxRestores
    /\ snapFiles.shared # <<>>
    /\ snapFiles' = [snapFiles EXCEPT !.restored = snapFiles.shared,
                                      !.restores = @ + 1]
    /\ SnapUnchanged

SnapshotInit == StoreInitWith([EmptyStore EXCEPT !.open = TRUE])

SnapshotNext ==
    \/ DoSnapshot(StoreNode)
    \/ \E i \in 1..MaxCopyTasks : CopyPage(i)
    \/ \E i \in 1..MaxCopyTasks, removed \in BOOLEAN : RemoveTmp(i, removed)
    \/ \E n \in Nodes : RestoreFile(n)

SnapshotSpec == SnapshotInit /\ [][SnapshotNext]_vars

\* ------------------------------------------------- HTTP specification
\* Requests to the job and report routes of the HTTP server of any node, on
\* a farm where one node leads with a store of one job.
\* The leader-only routes HttpServer::setupRoutes registers.
RegisteredLeaderRoutes ==
    {"POST /api/jobs", "GET /api/jobs", "GET /api/jobs/:id",
     "POST /api/jobs/:id/pause", "POST /api/jobs/:id/resume",
     "POST /api/jobs/:id/cancel", "POST /api/jobs/:id/archive",
     "DELETE /api/jobs/:id", "POST /api/dispatch/frame-complete",
     "POST /api/dispatch/complete", "POST /api/dispatch/failed"}

\* The routes MonitorApp::postToLeaderAsync posts to.
PostedRoutes ==
    {"POST /api/jobs/:id/pause", "POST /api/jobs/:id/resume",
     "POST /api/jobs/:id/cancel", "POST /api/jobs/:id/archive",
     "DELETE /api/jobs/:id", "POST /api/jobs/:id/retry-failed",
     "POST /api/jobs/:id/resubmit", "POST /api/nodes/:id/unsuspend"}

\* The requests drawn: every route above whose effect lies in the store or
\* in the report queues.
RequestRoutes ==
    (RegisteredLeaderRoutes \cup PostedRoutes)
        \ {"POST /api/jobs", "POST /api/dispatch/frame-complete"}

\* The status of the reply of node n: 404 for a route that is not
\* registered, 503 from requireLeader, else 200.
HttpStatus(n, route) ==
    IF route \notin RegisteredLeaderRoutes THEN 404
    ELSE IF ~isLeader[n] THEN 503
    ELSE 200

\* The job state a job-control route writes.
RouteState(route) ==
    CASE route = "POST /api/jobs/:id/pause" -> "paused"
      [] route = "POST /api/jobs/:id/resume" -> "active"
      [] route = "POST /api/jobs/:id/cancel" -> "cancelled"
      [] route = "POST /api/jobs/:id/archive" -> "archived"
      [] OTHER -> ""

\* One request for route on node n, about job JobIds1 and, for a report,
\* chunk k reported by worker w.
HttpRequest(n, route, w, k) ==
    /\ lastOp.n < MaxCalls
    /\ up[n]
    /\ LET status == HttpStatus(n, route)
           served == status = 200
           writes == served /\ db[n].open
       IN /\ lastOp' = [NoOp EXCEPT !.kind = route, !.job_id = JobIds1,
                                    !.node = n, !.status = status,
                                    !.t = now, !.n = lastOp.n + 1]
          /\ db' = IF writes /\ RouteState(route) # ""
                   THEN [db EXCEPT ![n] = updateJobState(@, JobIds1, RouteState(route))]
                   ELSE IF writes /\ route = "DELETE /api/jobs/:id"
                   THEN [db EXCEPT ![n] = deleteJob(@, JobIds1)]
                   ELSE db
          /\ completionQueue' =
                IF served /\ route = "POST /api/dispatch/complete"
                THEN [completionQueue EXCEPT ![n] =
                         Append(@, CompletionReport(w, k[1], k[2], k[3]))]
                ELSE completionQueue
          /\ failureQueue' =
                IF served /\ route = "POST /api/dispatch/failed"
                THEN [failureQueue EXCEPT ![n] =
                         Append(@, CompletionReport(w, k[1], k[2], k[3]))]
                ELSE failureQueue
          /\ LET purge == served /\ route \in {"POST /api/jobs/:id/cancel",
                                               "DELETE /api/jobs/:id"}
             IN /\ activeRender' =
                      IF purge /\ isRendering(n) /\ activeRender[n][1][1] = JobIds1
                      THEN [activeRender EXCEPT ![n] = <<>>] ELSE activeRender
                /\ dispatchQueue' =
                      IF purge
                      THEN [dispatchQueue EXCEPT ![n] =
                               SelectSeq(@, LAMBDA c : c[1] # JobIds1)]
                      ELSE dispatchQueue
    /\ UNCHANGED <<now, up, endpointFile, nodeState, peers, isLeader, wasLeader,
                   leaderDbReady, leaderThread, snapshot, tracker,
                   pendingReports, markedDead, submitted, ticks, crashes,
                   localTags, configTags, suspendedNodes, failureLog, snapFiles, pollRun, flushBatch, arrivals>>

HttpNext ==
    \E n \in Nodes, route \in RequestRoutes, w \in Nodes :
        HttpRequest(n, route, w, <<JobIds1, 1, 1>>)

HttpSpec == SuspendInit /\ [][HttpNext]_vars

\* ------------------------------------------------ peer-poll specification
\* The registry of every node on a network that may drop HTTP: the poll of a
\* running peer is answered or not, while its UDP heartbeats keep arriving.
\* A poll that pollPeers skips (UDP contact and an answer less than 9 s old)
\* is no pass of the loop for that peer.
PollOutcomes == {ok \in [Nodes -> BOOLEAN] : \A w \in Nodes : ok[w] => up[w]}

\* History: the polls of w by n that failed in a row.
PollRunAfter(n, ok) ==
    LET d == discoverPeers(peers[n], n)
    IN [w \in Nodes |->
           IF ~d[w].present \/ ok[w] THEN 0
           ELSE IF pollRun[n][w] < DEAD_AFTER_FAILED_POLLS
                THEN pollRun[n][w] + 1 ELSE pollRun[n][w]]

PollLoop(n, ok) ==
    /\ PeerLoopWith(n, ok)
    /\ pollRun' = [pollRun EXCEPT ![n] = PollRunAfter(n, ok)]

PollNext ==
    \/ \E n \in Nodes : \E ok \in PollOutcomes : PollLoop(n, ok)
    \/ \E m \in Nodes, n \in Nodes : UdpHeartbeat(m, n)
    \/ \E n \in Nodes : Shutdown(n)
    \/ \E n \in Nodes : Crash(n)

PollSpec == Init /\ [][PollNext]_vars

\* ------------------------------------------------ report-queue specification
\* The worker side of the reports with the flush in its two critical
\* sections: flushCompletionReports takes the whole queue under m_reportMutex,
\* posts the batch without the lock while reportCompletion may append, and
\* puts the unsent rest back under the lock.  The reports of a node are for
\* the frames 1, 2, ... in the order it produces them.
MaxReports == 3
MaxArrivals == 4

Arrival(state, r) == [state |-> state, report |-> r]

AsArrivals(q, from) ==
    [i \in DOMAIN q |->
        Arrival(q[i].state,
                CompletionReport(from, q[i].jobId, q[i].frameStart, q[i].frameEnd))]

\* MonitorApp::reportCompletion on a node whose store is not open: the report
\* goes to the back of m_pendingReports.
QueueReport(w, state) ==
    /\ up[w] /\ ~(isLeader[w] /\ db[w].open)
    /\ lastOp.n < MaxReports
    /\ LET f == lastOp.n + 1
       IN /\ pendingReports' = [pendingReports EXCEPT ![w] =
                 Append(@, PendingReport(<<JobIds1, f, f>>, state))]
          /\ lastOp' = [NoOp EXCEPT !.kind = "report", !.n = f, !.node = w]
    /\ UNCHANGED <<now, up, endpointFile, nodeState, peers, isLeader, wasLeader,
                   leaderDbReady, leaderThread, db, snapshot, completionQueue,
                   failureQueue, tracker, dispatchQueue, activeRender,
                   markedDead, submitted, ticks, crashes, localTags, configTags,
                   suspendedNodes, failureLog, snapFiles, pollRun, flushBatch,
                   arrivals>>

\* flushCompletionReports, first critical section: batch = move(queue).
FlushTake(n) ==
    /\ up[n] /\ flushBatch[n] = <<>> /\ pendingReports[n] # <<>>
    /\ flushBatch' = [flushBatch EXCEPT ![n] = pendingReports[n]]
    /\ pendingReports' = [pendingReports EXCEPT ![n] = <<>>]
    /\ UNCHANGED <<now, up, endpointFile, nodeState, peers, isLeader, wasLeader,
                   leaderDbReady, leaderThread, db, snapshot, completionQueue,
                   failureQueue, tracker, dispatchQueue, activeRender,
                   markedDead, lastOp, submitted, ticks, crashes, localTags, configTags,
                   suspendedNodes, failureLog, snapFiles, pollRun, arrivals>>

\* Mutant: the unsent reports go behind those that arrived during the flush.
RequeueBehind(unsent, arrived) == arrived \o unsent

\* flushCompletionReports, last critical section: the queue after the unsent
\* reports are put back.
Requeue(unsent, arrived) == unsent \o arrived

\* flushCompletionReports from the leader lookup on: without a leader
\* endpoint the whole batch goes back; otherwise the first k reports get 200
\* and the next one fails, before it reaches the leader or after the handler
\* ran (dup).
FlushSend(n, k, dup) ==
    /\ up[n] /\ flushBatch[n] # <<>>
    /\ LET t == getLeaderEndpoint(n)
           batch == flushBatch[n]
           got == SubSeq(batch, 1, IF dup THEN k + 1 ELSE k)
       IN /\ k \in 0..Len(batch)
          /\ t = NullStr => k = 0 /\ ~dup
          /\ (k > 0 \/ dup) => Answers200(t)
          /\ dup => k < Len(batch)
          /\ IF got = <<>>
             THEN UNCHANGED <<completionQueue, failureQueue, arrivals>>
             ELSE /\ Len(arrivals[t]) + Len(got) <= MaxArrivals
                  /\ completionQueue' = [completionQueue EXCEPT ![t] =
                         @ \o AsInbound(OfState(got, "completed"), n)]
                  /\ failureQueue' = [failureQueue EXCEPT ![t] =
                         @ \o AsInbound(OfState(got, "failed"), n)]
                  /\ arrivals' = [arrivals EXCEPT ![t] = @ \o AsArrivals(got, n)]
          /\ pendingReports' = [pendingReports EXCEPT ![n] =
                                   Requeue(Unsent(batch, k), @)]
          /\ lastOp' = [lastOp EXCEPT !.kind = "flush", !.node = n,
                           !.acted = (Unsent(batch, k) # <<>>
                                      /\ pendingReports[n] # <<>>)]
    /\ flushBatch' = [flushBatch EXCEPT ![n] = <<>>]
    /\ UNCHANGED <<now, up, endpointFile, nodeState, peers, isLeader, wasLeader,
                   leaderDbReady, leaderThread, db, snapshot, tracker,
                   dispatchQueue, activeRender, markedDead, submitted, ticks,
                   crashes, localTags, configTags, suspendedNodes, failureLog, snapFiles,
                   pollRun>>

FlushNext ==
    \/ \E w \in Nodes, state \in {"completed", "failed"} : QueueReport(w, state)
    \/ \E n \in Nodes : FlushTake(n)
    \/ \E n \in Nodes : \E k \in 0..MaxReports, dup \in BOOLEAN : FlushSend(n, k, dup)
    \/ \E n \in Nodes : PeerLoop(n)

FlushSpec == Init /\ [][FlushNext]_vars

\* ------------------------------------------------ blacklist specification
\* The leader's store with two jobs under every call that writes chunk rows:
\* dispatch, completion, failure and revert, dead-worker reassignment,
\* retry-failed, requeue and delete.
\* MonitorApp::requeueJob on the leader.
StoreRequeue(j) ==
    /\ lastOp.n < MaxCalls
    /\ isLeader[StoreNode] /\ db[StoreNode].open
    /\ db' = [db EXCEPT ![StoreNode] =
                updateJobState(resetAllChunks(@, j), j, "active")]
    /\ lastOp' = [NoOp EXCEPT !.kind = "resetAllChunks", !.job_id = j,
                              !.t = now, !.n = lastOp.n + 1]
    /\ UNCHANGED now /\ StoreUnchanged

\* MonitorApp::deleteJob on the leader, nothing of the job rendering locally.
StoreDelete(j) ==
    /\ lastOp.n < MaxCalls
    /\ isLeader[StoreNode] /\ db[StoreNode].open
    /\ HasJob(db[StoreNode], j)
    /\ db' = [db EXCEPT ![StoreNode] = deleteJob(updateJobState(@, j, "cancelled"), j)]
    /\ lastOp' = [NoOp EXCEPT !.kind = "deleteJob", !.job_id = j,
                              !.t = now, !.n = lastOp.n + 1]
    /\ UNCHANGED now /\ StoreUnchanged

\* detectDeadWorkers: reassignDeadWorkerChunks for worker w.
StoreReassign(w) ==
    /\ lastOp.n < MaxCalls
    /\ db' = [db EXCEPT ![StoreNode] = reassignDeadWorkerChunks(@, w)]
    /\ db'[StoreNode] # db[StoreNode]
    /\ lastOp' = [NoOp EXCEPT !.kind = "reassignDeadWorkerChunks", !.t = now,
                              !.n = lastOp.n + 1]
    /\ UNCHANGED now /\ StoreUnchanged

BlacklistNext ==
    \/ \E w \in Nodes : StoreAssign(w, NodeTags[w])
    \/ \E k \in StoreKeys : StoreComplete(k)
    \/ \E k \in StoreKeys, w \in Nodes \cup {NullStr} : StoreFail(k, w)
    \/ \E w \in Nodes : StoreReassign(w)
    \/ \E j \in RetryJobs : StoreRetryFailed(j)
    \/ \E j \in RetryJobs : StoreRequeue(j)
    \/ \E j \in RetryJobs : StoreDelete(j)

BlacklistSpec == RetryInit /\ [][BlacklistNext]_vars

\* ------------------------------------------------ report-order specification
\* The leader's inbound queues between and across dispatch ticks: chunk
\* reports of any worker arrive over HTTP in any order and the tick applies
\* what has been queued.
\* POST /api/dispatch/complete and POST /api/dispatch/failed on leader n: the
\* report of worker w for chunk k goes to m_completionQueue or m_failureQueue.
MaxReceived == 3

ReceiveReport(n, w, k, state) ==
    /\ Answers200(n)
    /\ Len(arrivals[n]) < MaxReceived
    /\ LET r == CompletionReport(w, k[1], k[2], k[3])
       IN /\ IF state = "completed"
             THEN /\ completionQueue' = [completionQueue EXCEPT ![n] = Append(@, r)]
                  /\ UNCHANGED failureQueue
             ELSE /\ failureQueue' = [failureQueue EXCEPT ![n] = Append(@, r)]
                  /\ UNCHANGED completionQueue
          /\ arrivals' = [arrivals EXCEPT ![n] = Append(@, Arrival(state, r))]
    /\ UNCHANGED <<now, up, endpointFile, nodeState, peers, isLeader, wasLeader,
                   leaderDbReady, leaderThread, db, snapshot, tracker,
                   dispatchQueue, activeRender, pendingReports, markedDead,
                   lastOp, submitted, ticks, crashes, localTags, configTags, suspendedNodes,
                   failureLog, snapFiles, pollRun, flushBatch>>

OrderNext ==
    \/ \E n \in Nodes : \E w \in Nodes \ {n} :
          \E i \in DOMAIN db[n].chunks, state \in {"completed", "failed"} :
              ReceiveReport(n, w, Key(db[n].chunks[i]), state)
    \/ \E n \in Nodes : Tick(n)
    \/ \E n \in Nodes : StartRender(n)

OrderSpec == SuspendInit /\ [][OrderNext]_vars

\* ------------------------------------------------ assignment specification
\* The leader's dispatch under what changes its view of the workers: nodes
\* are stopped and started, start rendering, go down, are polled and send
\* heartbeats, and failure reports suspend them.
\* MonitorApp::setNodeState on a node that renders nothing (nothing to abort).
SetNodeState(n, st) ==
    /\ up[n] /\ ~isRendering(n) /\ nodeState[n] # st
    /\ nodeState' = [nodeState EXCEPT ![n] = st]
    /\ UNCHANGED <<now, up, endpointFile, peers, isLeader, wasLeader,
                   leaderDbReady, leaderThread, db, snapshot, completionQueue,
                   failureQueue, tracker, dispatchQueue, activeRender,
                   pendingReports, markedDead, lastOp, submitted, ticks, crashes,
                   localTags, configTags, suspendedNodes, failureLog, snapFiles, pollRun,
                   flushBatch, arrivals>>

\* The other node has four failures on record, reported for a job that has
\* been deleted since.
AssignInit ==
    \E w \in Nodes \ {StoreNode} :
        StoreInitWithTracker(
            submitJob([EmptyStore EXCEPT !.open = TRUE], JobIds1,
                      [Manifest(JobIds1, 1, MaxMaxRetries) EXCEPT
                          !.frame_end = StoreFrames],
                      DEFAULT_PRIORITY, 1),
            [n \in Nodes |->
                IF n = StoreNode
                THEN [NoRecords EXCEPT ![w] =
                         [NoRecord EXCEPT !.failure_count = SUSPEND_THRESHOLD - 1,
                                          !.first_failure_ms = 1,
                                          !.last_failure_ms = 1]]
                ELSE NoRecords])

AssignNext ==
    \/ \E n \in Nodes : Tick(n)
    \/ \E n \in Nodes, st \in {"active", "stopped"} : SetNodeState(n, st)
    \/ \E n \in Nodes : StartRender(n)
    \/ \E n \in Nodes : PeerLoop(n)
    \/ \E n \in Nodes : Crash(n)
    \/ \E n \in Nodes : \E w \in Nodes \ {n} :
          /\ db[n].chunks # <<>> /\ failureQueue[n] = <<>>
          /\ QueueFailure(n, w, Key(db[n].chunks[1]))

AssignSpec == AssignInit /\ [][AssignNext]_vars

\* ------------------------------------------------ chunk-choice specification
\* The leader's store with two jobs of any priority, submission time and
\* required tags within the bounds, under dispatch to nodes of any tags,
\* failure and completion reports.
Priorities == {DEFAULT_PRIORITY - 1, DEFAULT_PRIORITY}

NodeTagSets == {{}, {"ae"}}

ChoiceInit ==
    \E p1 \in Priorities, p2 \in Priorities, t1 \in Times, t2 \in Times,
       tr \in NodeTagSets :
        StoreInitWith(
            submitJob(
                submitJob([EmptyStore EXCEPT !.open = TRUE], JobIds1,
                          [Manifest(JobIds1, 1, 1) EXCEPT !.frame_end = StoreFrames,
                                                          !.tags_required = tr],
                          p1, t1),
                OtherJob,
                [Manifest(OtherJob, StoreFrames, 1) EXCEPT !.frame_end = StoreFrames],
                p2, t2))

ChoiceNext ==
    \/ \E w \in Nodes, tags \in NodeTagSets : StoreAssign(w, tags)
    \/ \E k \in StoreKeys : StoreComplete(k)
    \/ \E k \in StoreKeys, w \in Nodes : StoreFail(k, w)

ChoiceSpec == ChoiceInit /\ [][ChoiceNext]_vars

\* ------------------------------------------------ frame-report specification
\* The leader's store with two jobs under frame reports for any frame, also
\* outside the jobs' ranges, applied one by one (the leader's own render) or
\* as the batch of a tick, with dispatch, reports and retry-failed.
FrameInputs == 0..(StoreFrames + 1)

\* MonitorApp::reportFrameCompletion on the leader: addCompletedFrames.
StoreAddFrameLocal(j, f) ==
    /\ lastOp.n < MaxCalls
    /\ isLeader[StoreNode] /\ db[StoreNode].open
    /\ db' = [db EXCEPT ![StoreNode] = addCompletedFrames(@, j, f)]
    /\ lastOp' = [NoOp EXCEPT !.kind = "addCompletedFrames", !.job_id = j,
                              !.frame_start = f, !.t = now, !.n = lastOp.n + 1]
    /\ UNCHANGED now /\ StoreUnchanged

\* processReports, the frame loop: the frames fs of job j queued since the
\* last tick.
StoreAddFrames(j, fs) ==
    /\ lastOp.n < MaxCalls
    /\ db' = [db EXCEPT ![StoreNode] = addCompletedFramesBatch(@, j, fs)]
    /\ lastOp' = [NoOp EXCEPT !.kind = "addCompletedFramesBatch", !.job_id = j,
                              !.t = now, !.n = lastOp.n + 1]
    /\ UNCHANGED now /\ StoreUnchanged

FrameNext ==
    \/ \E j \in RetryJobs, f \in FrameInputs : StoreAddFrameLocal(j, f)
    \/ \E j \in RetryJobs, f \in FrameInputs, g \in FrameInputs :
          StoreAddFrames(j, <<f, g>>)
    \/ \E w \in Nodes : StoreAssign(w, NodeTags[w])
    \/ \E k \in StoreKeys : StoreComplete(k)
    \/ \E k \in StoreKeys, w \in Nodes : StoreFail(k, w)
    \/ \E j \in RetryJobs : StoreRetryFailed(j)

FrameSpec == RetryInit /\ [][FrameNext]_vars

\* ------------------------------------------------ job-row specification
\* The leader's store, empty at first, under submissions that may repeat a
\* job id or fail at the chunk insert, deletions, dispatch and reports.
\* DispatchManager::submitJob for job j with chunk size cs.
StoreSubmit(j, cs, chunksOk) ==
    /\ lastOp.n < MaxCalls
    /\ db[StoreNode].open
    /\ db' = [db EXCEPT ![StoreNode] =
                submitJobWith(@, j, [Manifest(j, cs, 1) EXCEPT
                                       !.frame_end = StoreFrames],
                              DEFAULT_PRIORITY, now, chunksOk)]
    /\ lastOp' = [NoOp EXCEPT !.kind = "submitJob", !.job_id = j, !.t = now,
                              !.acted = (~HasJob(db[StoreNode], j) /\ chunksOk),
                              !.n = lastOp.n + 1]
    /\ UNCHANGED now /\ StoreUnchanged

JobRowInit == StoreInitWith([EmptyStore EXCEPT !.open = TRUE])

JobRowNext ==
    \/ \E j \in RetryJobs, cs \in 1..StoreFrames, chunksOk \in BOOLEAN :
          StoreSubmit(j, cs, chunksOk)
    \/ \E j \in RetryJobs : StoreDelete(j)
    \/ \E w \in Nodes : StoreAssign(w, NodeTags[w])
    \/ \E k \in StoreKeys : StoreComplete(k)
    \/ \E k \in StoreKeys, w \in Nodes : StoreFail(k, w)

JobRowSpec == JobRowInit /\ [][JobRowNext]_vars

\* ------------------------------------------------ assignment specification
\* The worker side of an assignment: POST /api/dispatch/assign served on the
\* HTTP thread of node w while its main loop starts and ends renders and
\* the node is stopped and started.
MaxAccepted == 2

\* The route POST /api/dispatch/assign on node w for chunk k: 409 while a
\* render is active or the node is stopped, else the chunk is queued for
\* the coordinator and the reply is 200.
DispatchAssign(w, k) ==
    /\ up[w] /\ lastOp.n < MaxCalls
    /\ Len(dispatchQueue[w]) < MaxAccepted
    /\ LET status == IF isRendering(w) \/ nodeState[w] = "stopped"
                     THEN 409 ELSE 200
       IN /\ lastOp' = [NoOp EXCEPT !.kind = "POST /api/dispatch/assign",
                                    !.job_id = k[1], !.frame_start = k[2],
                                    !.frame_end = k[3], !.node = w,
                                    !.status = status, !.n = lastOp.n + 1]
          /\ dispatchQueue' = IF status = 200
                              THEN [dispatchQueue EXCEPT ![w] = Append(@, k)]
                              ELSE dispatchQueue
    /\ UNCHANGED <<now, up, endpointFile, nodeState, peers, isLeader, wasLeader,
                   leaderDbReady, leaderThread, db, snapshot, completionQueue,
                   failureQueue, tracker, activeRender, pendingReports,
                   markedDead, submitted, ticks, crashes, localTags, configTags,
                   suspendedNodes, failureLog, snapFiles, pollRun, flushBatch,
                   arrivals>>

AcceptNext ==
    \/ \E w \in Nodes, k \in ChunkKeys : DispatchAssign(w, k)
    \/ \E w \in Nodes : StartRender(w)
    \/ \E w \in Nodes : FinishRender(w)
    \/ \E w \in Nodes, st \in {"active", "stopped"} : SetNodeState(w, st)

AcceptSpec == Init /\ [][AcceptNext]_vars

\* ------------------------------------------------ report-lag specification
\* The leader's dispatch of a job of several chunks while the workers
\* render, finish and fail their chunks and their reports reach the leader
\* late or not at all.
LagNext ==
    \/ \E n \in Nodes : Tick(n)
    \/ \E n \in Nodes : StartRender(n)
    \/ \E n \in Nodes : FinishRender(n)
    \/ \E n \in Nodes : Flush(n)
    \/ \E n \in Nodes : PeerLoop(n)

LagSpec == SuspendInit /\ [][LagNext]_vars

\* ------------------------------------------------ settings specification
\* The election while tags are edited in the settings of running nodes.
\* SettingsPanel::render, Save with nothing but the tags edited: applyToConfig
\* and saveConfig; the farm is not restarted.
SaveTags(n, tags) ==
    /\ up[n] /\ tags # configTags[n]
    /\ configTags' = [configTags EXCEPT ![n] = tags]
    /\ UNCHANGED <<now, up, endpointFile, nodeState, peers, isLeader, wasLeader,
                   leaderDbReady, leaderThread, db, snapshot, completionQueue,
                   failureQueue, tracker, dispatchQueue, activeRender,
                   pendingReports, markedDead, lastOp, submitted, ticks, crashes,
                   localTags, suspendedNodes, failureLog, snapFiles, pollRun,
                   flushBatch, arrivals>>

SettingsNext ==
    \/ \E n \in Nodes, tags \in SUBSET ElectionTags : SaveTags(n, tags)
    \/ \E n \in Nodes : PeerLoop(n)

SettingsSpec == Init /\ [][SettingsNext]_vars

\* ------------------------------------------------ departure specification
\* The fair farm where a node that is not leader may be shut down: its
\* goodbye reaches the nodes that hear it and its endpoint.json is removed.
WorkerLeaves(m) == ~isLeader[m] /\ Shutdown(m)

LeaveNext ==
    \/ \E n \in Nodes : Submit(n)
    \/ \E n \in Nodes : FairTick(n)
    \/ \E n \in Nodes : StartRender(n)
    \/ \E n \in Nodes : FinishRender(n)
    \/ \E n \in Nodes : Flush(n)
    \/ \E n \in Nodes : PeerLoop(n)
    \/ \E n \in Nodes : WorkerLeaves(n)
    \/ \E n \in Nodes : LeaderTransition(n)
    \/ \E n \in Nodes : LeaderDbInit(n)

LeaveSpec == Init /\ [][LeaveNext]_vars /\ Fairness

\* ================================================================ claims
\* max_retries of the job a chunk row belongs to.
MaxRetriesOf(s, c) == getJob(s, c.job_id).manifest.max_retries

Stores == {db[n] : n \in Nodes}

\* C1: in every reachable state of a store, every chunk has
\* retry_count <= max_retries of its job.
C1_RetryCountWithinMaxRetries ==
    \A s \in Stores : \A i \in DOMAIN s.chunks :
        s.chunks[i].retry_count <= MaxRetriesOf(s, s.chunks[i])

\* C2: a chunk is never failed early: a chunk in state failed has had at
\* least max_retries failure reports applied by the leader.
C2_FailedOnlyAfterMaxRetriesReports ==
    \A s \in Stores : \A i \in DOMAIN s.chunks :
        s.chunks[i].state = "failed"
            => s.chunks[i].reports >= MaxRetriesOf(s, s.chunks[i])

\* C3: findNextPendingChunkForNode(tags, n) never returns a chunk with n in
\* failed_on, and no chunk is ever assigned to a node in its failed_on.
C3_NeverAssignedToBlacklistedNode ==
    \A s \in Stores :
        /\ \A i \in DOMAIN s.chunks :
               s.chunks[i].state = "assigned"
                   => ~Contains(s.chunks[i].failed_on, s.chunks[i].assigned_to)
        /\ \A w \in Nodes :
               LET idx == findNextPendingChunkForNode(s, NodeTags[w], w)
               IN idx # 0 => ~Contains(s.chunks[idx].failed_on, w)

\* C3 witness: a chunk that failed on one node is assigned to another one.
C3_Witness ==
    \E s \in Stores : \E i \in DOMAIN s.chunks :
        /\ s.chunks[i].state = "assigned"
        /\ s.chunks[i].failed_on # <<>>
        /\ s.chunks[i].assigned_to # NullStr
        /\ ~Contains(s.chunks[i].failed_on, s.chunks[i].assigned_to)

ChunksAssignedTo(s, w) ==
    {i \in DOMAIN s.chunks :
        s.chunks[i].state = "assigned" /\ s.chunks[i].assigned_to = w}

\* C4: once leader n has marked worker w !is_alive (three failed polls or a
\* UDP goodbye), the next dispatch tick of n leaves no chunk assigned to w,
\* whatever the peer-registry loop did in between.
C4_DeadWorkerChunksPendingAfterTick ==
    [][\A n \in Nodes :
          Tick(n) => \A w \in markedDead[n] : ChunksAssignedTo(db'[n], w) = {}]_vars

ChunksOf(s, jobId) == {i \in DOMAIN s.chunks : s.chunks[i].job_id = jobId}

\* C8: after each dispatch tick a job is completed iff all its chunks are
\* completed or failed and at least one is completed; a job whose chunks
\* are all failed is not completed.
C8_CompletedIffAllDoneAndOneCompleted ==
    [][\A n \in Nodes :
          Tick(n) =>
            \A j \in DOMAIN db'[n].jobs :
              LET s == db'[n]
                  cs == ChunksOf(s, s.jobs[j].job_id)
              IN (s.jobs[j].current_state = "completed")
                   <=> /\ \A i \in cs : s.chunks[i].state \in {"completed", "failed"}
                       /\ \E i \in cs : s.chunks[i].state = "completed"]_vars

\* C9: an assigned chunk has assigned_to and assigned_at set, a chunk in any
\* other state has both cleared, and completed_at is set exactly for
\* completed chunks.
C9_AssignmentFieldsMatchState ==
    \A s \in Stores : \A i \in DOMAIN s.chunks :
        LET c == s.chunks[i]
        IN /\ c.state = "assigned"
                => c.assigned_to # NullStr /\ c.assigned_at_ms # NullMs
           /\ c.state # "assigned"
                => c.assigned_to = NullStr /\ c.assigned_at_ms = NullMs
           /\ (c.completed_at_ms # NullMs) <=> (c.state = "completed")

\* The store without the history column.
WithoutHistory(s) ==
    [s EXCEPT !.chunks = [i \in DOMAIN @ |-> [@[i] EXCEPT !.reports = 0]]]

\* C6: for every report waiting in a leader's inbound queues, and for every
\* frame report it can receive, processing the report twice leaves the
\* store and the failure tracker as processing it once does.
C6_DuplicateReportsHarmless ==
    \A n \in Nodes :
        /\ \A r \in Range(completionQueue[n]) :
              ProcessCompletions(db[n], <<r, r>>, now)
                = ProcessCompletions(db[n], <<r>>, now)
        /\ \A r \in Range(failureQueue[n]) :
              LET st    == [db |-> db[n], trk |-> tracker[n]]
                  once  == ProcessFailure(st, r, now)
                  twice == ProcessFailure(once, r, now)
              IN /\ WithoutHistory(twice.db) = WithoutHistory(once.db)
                 /\ twice.trk = once.trk
        /\ \A j \in JobIds, f \in 1..MaxFrame :
              addCompletedFramesBatch(db[n], j, <<f, f>>)
                = addCompletedFramesBatch(db[n], j, <<f>>)

ChunkAt(s, k) ==
    s.chunks[CHOOSE i \in DOMAIN s.chunks : Key(s.chunks[i]) = k]

\* C7: complete_chunk(job, fs, fe, t2) right after complete_chunk(job, fs,
\* fe, t1) changes nothing in the store, and when the first call completed
\* the chunk, the chunk is completed with completed_at = t1.
C7_SecondCompleteChangesNothing ==
    [][\A k \in StoreKeys :
          (StoreComplete(k) /\ lastOp'.again)
            => /\ db' = db
               /\ lastOp.acted
                    => /\ ChunkAt(db'[StoreNode], k).state = "completed"
                       /\ ChunkAt(db'[StoreNode], k).completed_at_ms
                            = lastOp.first_t]_vars

\* C7 witness: a chunk was completed at t1 and complete_chunk was called
\* again for it at a later time t2, with another chunk in the store.
C7_Witness ==
    /\ lastOp.kind = "completeChunk" /\ lastOp.again /\ lastOp.acted
    /\ lastOp.t # lastOp.first_t
    /\ Len(db[StoreNode].chunks) > 1

\* The reports of q, as the leader's handlers queue them for sender n.
InboundOf(q, n) == Range(AsInbound(q, n))

\* C5: a report leaves the queue of a running worker only in a step in which
\* the node it was posted to answered 200 as leader and queued it, the
\* reports behind it stay queued in order, and every queued report is
\* delivered in the end, whichever node is leader by then.
C5_ReportsKeptUntilDelivered ==
    /\ [][\A n \in Nodes :
            (up'[n] /\ Len(pendingReports'[n]) < Len(pendingReports[n]))
              => LET t == getLeaderEndpoint(n)
                     k == Len(pendingReports[n]) - Len(pendingReports'[n])
                     sent == SubSeq(pendingReports[n], 1, k)
                 IN /\ t # NullStr
                    /\ Answers200(t)
                    /\ pendingReports'[n]
                         = SubSeq(pendingReports[n], k + 1, Len(pendingReports[n]))
                    /\ InboundOf(OfState(sent, "completed"), n)
                         \subseteq Range(completionQueue'[t])
                    /\ InboundOf(OfState(sent, "failed"), n)
                         \subseteq Range(failureQueue'[t])]_vars
    /\ \A n \in Nodes : (pendingReports[n] # <<>>) ~> (pendingReports[n] = <<>>)

\* C5 witness: a worker holds a report while the node it believed to be the
\* leader is down, the worker has become leader itself and its own handler
\* has queued the report: delivery across a leader change.
C5_Witness ==
    \E n \in Nodes : \E m \in Nodes \ {n} :
        /\ ~up[m] /\ up[n] /\ isLeader[n]
        /\ pendingReports[n] = <<>>
        /\ \E r \in Range(completionQueue[n]) \cup Range(failureQueue[n]) :
              r.node_id = n

AssignedIn(n, k) ==
    /\ db[n].open
    /\ \E i \in DOMAIN db[n].chunks :
          Key(db[n].chunks[i]) = k /\ db[n].chunks[i].state = "assigned"

\* C10: after a node crashed, every chunk that the store of the acting
\* leader (restored from the last snapshot on failover) records as assigned
\* leaves that assignment: it is completed or handed out again.
C10_AssignedAfterFailoverIsResolved ==
    \A n \in Nodes : \A k \in ChunkKeys :
        (crashes > 0 /\ CanDispatch(n) /\ AssignedIn(n, k))
            ~> ~(CanDispatch(n) /\ AssignedIn(n, k))

\* The candidates node n sees, and the tags it sees on each.
Candidates(n) == {n} \cup {w \in Nodes : peers[n][w].present /\ peers[n][w].is_alive}

TagsSeenBy(n, w) == IF w = n THEN localTags[n] ELSE peers[n][w].tags

SameView(n1, n2) ==
    /\ Candidates(n1) = Candidates(n2)
    /\ \A w \in Candidates(n1) : TagsSeenBy(n1, w) = TagsSeenBy(n2, w)

\* C11: two nodes that see the same alive-set and the same tags on every
\* member compute the same leader, and at most one of them considers itself
\* leader.
C11_SameViewSameLeader ==
    \A n1 \in Nodes : \A n2 \in Nodes \ {n1} :
        SameView(n1, n2)
          => /\ newLeader(peers[n1], n1) = newLeader(peers[n2], n2)
             /\ ~(isLeader[n1] /\ isLeader[n2])

\* C11 witness: two nodes with the same view have both run the election;
\* the one with the larger id leads, by its tags, and the other one has
\* flagged it as leader.
C11_Witness ==
    \E n1 \in Nodes : \E n2 \in Nodes \ {n1} :
        /\ SameView(n1, n2)
        /\ NodeIdx(n1) > NodeIdx(n2)
        /\ isLeader[n1] /\ ~isLeader[n2]
        /\ peers[n2][n1].is_leader /\ ~peers[n1][n2].is_leader

\* The order of the election as a number: "leader" tag first, then no
\* "noleader" tag, then the smaller node id.
ElectionScore(tags, w) ==
    (IF "leader" \in tags THEN 0 ELSE 2 * (Len(NodeSeq) + 1))
    + (IF "noleader" \in tags THEN Len(NodeSeq) + 1 ELSE 0)
    + NodeIdx(w)

C13_AssignedOnlyWithAllRequiredTags ==
    [][\A w \in Nodes : \A tags \in SUBSET JobTags :
          StoreAssign(w, tags)
            => \A i \in DOMAIN db[StoreNode].chunks :
                  (db'[StoreNode].chunks[i] # db[StoreNode].chunks[i])
                    => /\ db'[StoreNode].chunks[i].state = "assigned"
                       /\ db'[StoreNode].chunks[i].assigned_to = w
                       /\ getJob(db[StoreNode], db[StoreNode].chunks[i].job_id)
                              .manifest.tags_required \subseteq tags]_vars

\* C13 witness: a chunk of a job that requires two tags has just been
\* assigned, while a node with only one of the two finds nothing although a
\* chunk is pending that a node with both would get.
C13_Witness ==
    /\ lastOp.kind = "assignChunk"
    /\ getJob(db[StoreNode], lastOp.job_id).manifest.tags_required = JobTags
    /\ \E w \in Nodes : \E t \in JobTags :
          /\ findNextPendingChunkForNode(db[StoreNode], {t}, w) = 0
          /\ findNextPendingChunkForNode(db[StoreNode], JobTags, w) # 0

\* C14: a chunk that is pending before a dispatch tick and pending after
\* it, and for which the leader had no failure report queued (so that the
\* tick at most assigned it and reverted the assignment after a failed
\* POST), keeps its retry_count and failed_on; and a tick without queued
\* failure reports counts no failure against any node.
C14_RevertLeavesRetryCountAndBlacklist ==
    [][\A n \in Nodes :
          Tick(n)
            => /\ \A i \in DOMAIN db[n].chunks :
                    LET c == db[n].chunks[i]
                        d == db'[n].chunks[i]
                    IN (/\ c.state = "pending" /\ d.state = "pending"
                        /\ \A r \in Range(failureQueue[n]) :
                              <<r.job_id, r.frame_start, r.frame_end>> # Key(c))
                         => /\ d.retry_count = c.retry_count
                            /\ d.failed_on = c.failed_on
               /\ failureQueue[n] = <<>> => tracker'[n] = tracker[n]]_vars

JobStateIn(s) == getJob(s, JobIds1).current_state

TerminalStates == {"cancelled", "completed", "archived"}

\* C15: a pause or resume request on a cancelled, completed or archived job
\* leaves the job's state unchanged, and no chunk of a job in one of these
\* states is assigned.
C15_TerminalStatesStayTerminal ==
    [][/\ (JobControl("paused") \/ JobControl("active"))
          => (JobStateIn(db[StoreNode]) \in TerminalStates
                => JobStateIn(db'[StoreNode]) = JobStateIn(db[StoreNode]))
       /\ \A w \in Nodes :
             StoreAssign(w, NodeTags[w])
               => JobStateIn(db[StoreNode]) \notin TerminalStates]_vars

\* C16: while the job is paused, looking for work for any node assigns
\* nothing, and the completion report of a chunk that is assigned is applied:
\* the chunk becomes completed.
C16_PausedJobFinishesButIsNotDispatched ==
    [][/\ \A w \in Nodes :
             StoreAssign(w, NodeTags[w]) => JobStateIn(db[StoreNode]) # "paused"
       /\ \A k \in StoreKeys :
             (/\ StoreComplete(k)
              /\ JobStateIn(db[StoreNode]) = "paused"
              /\ ChunkAt(db[StoreNode], k).state = "assigned")
               => ChunkAt(db'[StoreNode], k).state = "completed"]_vars

\* C16 witness: the job is paused, the completion of a chunk assigned before
\* the pause has just been applied, and its other chunk is still pending and
\* found for no node.
C16_Witness ==
    /\ JobStateIn(db[StoreNode]) = "paused"
    /\ lastOp.kind = "completeChunk" /\ lastOp.acted
    /\ \E i \in DOMAIN db[StoreNode].chunks : db[StoreNode].chunks[i].state = "pending"
    /\ \A w \in Nodes :
          findNextPendingChunkForNode(db[StoreNode], NodeTags[w], w) = 0

\* C17: retry-failed on job j sets every failed chunk of j to pending with
\* retry_count 0 and the same failed_on, so that a node in failed_on is
\* still not given the chunk, and leaves state, retry_count, failed_on and
\* completed_frames of every other chunk of j and of every chunk of the
\* other job as they are.
C17_RetryFailedResetsOnlyFailedChunks ==
    [][\A j \in RetryJobs :
          StoreRetryFailed(j)
            => \A i \in DOMAIN db[StoreNode].chunks :
                  LET c == db[StoreNode].chunks[i]
                      d == db'[StoreNode].chunks[i]
                  IN IF c.job_id = j /\ c.state = "failed"
                     THEN /\ d.state = "pending" /\ d.retry_count = 0
                          /\ d.failed_on = c.failed_on
                          /\ \A w \in Range(c.failed_on) :
                                findNextPendingChunkForNode(
                                    db'[StoreNode], NodeTags[w], w) # i
                     ELSE /\ d.state = c.state /\ d.retry_count = c.retry_count
                          /\ d.failed_on = c.failed_on
                          /\ d.completed_frames = c.completed_frames]_vars

\* C17 witness: retry-failed has just reset a failed chunk of the first job
\* that has a node in failed_on, and has left a chunk of the same job with
\* retry_count > 0 or completed frames as it was.
C17_Witness ==
    /\ lastOp.kind = "retryFailedChunks" /\ lastOp.job_id = JobIds1
    /\ \E i \in DOMAIN db[StoreNode].chunks :
          LET c == db[StoreNode].chunks[i]
          IN /\ c.job_id = JobIds1 /\ c.state = "pending"
             /\ c.retry_count = 0 /\ c.failed_on # <<>>
    /\ \E i \in DOMAIN db[StoreNode].chunks :
          LET c == db[StoreNode].chunks[i]
          IN /\ c.job_id = JobIds1
             /\ (c.retry_count > 0 \/ c.completed_frames # <<>>)

\* C17 witness for the other job: retry-failed on the first job has left
\* the failed chunk of the other job failed.
C17_OtherJobUntouched ==
    /\ C17_Witness
    /\ \E i \in DOMAIN db[StoreNode].chunks :
          /\ db[StoreNode].chunks[i].job_id = OtherJob
          /\ db[StoreNode].chunks[i].state = "failed"

\* Index in log of the failure that started the window failure i falls in:
\* the first failure starts a window, and so does every failure that comes
\* more than SUSPEND_WINDOW_MS after the start of the window before it.
RECURSIVE WindowStart(_, _)
WindowStart(log, i) ==
    IF i = 1 THEN 1
    ELSE LET st == WindowStart(log, i - 1)
         IN IF log[i] - log[st] > SUSPEND_WINDOW_MS THEN i ELSE st

\* Failures in the window of failure i, up to failure i.
WindowCount(log, i) == i - WindowStart(log, i) + 1

\* C19: after any failures of a node, failure_count is the number of
\* failures in the current window, first_failure_ms is the time of the
\* failure that started it, and the node is suspended exactly when some
\* failure was the fifth of its window; a suspended node has five failures
\* within SUSPEND_WINDOW_MS of one another.
C19_SuspendedIffFiveFailuresInOneWindow ==
    \A w \in Nodes :
        LET r == tracker[StoreNode][w]
            log == failureLog[w]
            len == Len(log)
        IN len > 0 =>
             /\ r.failure_count = WindowCount(log, len)
             /\ r.first_failure_ms = log[WindowStart(log, len)]
             /\ r.suspended <=> \E i \in 1..len : WindowCount(log, i) = SUSPEND_THRESHOLD
             /\ r.suspended =>
                  \E i \in SUSPEND_THRESHOLD..len :
                      log[i] - log[i - SUSPEND_THRESHOLD + 1] <= SUSPEND_WINDOW_MS

\* C19 witness: a node was suspended by the fifth failure of a window that a
\* late failure had restarted, and another failure came exactly when the
\* window ended without restarting it.
C19_Witness ==
    \E w \in Nodes :
        LET r == tracker[StoreNode][w]
            log == failureLog[w]
        IN /\ r.suspended /\ r.failure_count = SUSPEND_THRESHOLD
           /\ Len(log) > SUSPEND_THRESHOLD
           /\ r.first_failure_ms > log[1]
           /\ r.last_failure_ms - r.first_failure_ms = SUSPEND_WINDOW_MS

\* Chunks a dispatch tick of leader n has just assigned to worker w.
NewlyAssignedTo(n, w) ==
    {i \in DOMAIN db'[n].chunks :
        /\ db'[n].chunks[i].state = "assigned"
        /\ db'[n].chunks[i].assigned_to = w
        /\ ~(db[n].chunks[i].state = "assigned" /\ db[n].chunks[i].assigned_to = w)}

\* C18: a dispatch tick assigns no chunk to a node that a tracker has
\* suspended and that has not been unsuspended since, whatever the time;
\* unsuspend leaves the node with a fresh record, not suspended.
C18_SuspendedNodeGetsNoChunkUntilUnsuspend ==
    [][/\ \A n \in Nodes, w \in suspendedNodes :
             ticks' # ticks /\ db'[n] # db[n] => NewlyAssignedTo(n, w) = {}
       /\ \A n \in Nodes, w \in Nodes :
             Unsuspend(n, w) => tracker'[n][w] = NoRecord /\ ~isSuspended(tracker'[n], w)]_vars

\* The chunk rows of job jobId in insertion order.
RowsOf(s, jobId) == SelectSeq(s.chunks, LAMBDA c : c.job_id = jobId)

\* C20: the chunk rows of every submitted job start at the manifest's
\* frame_start, end at its frame_end, follow one another without gap or
\* overlap, are never empty, and have chunk_size frames each, except that
\* the last may have fewer.
C20_ChunksPartitionTheFrameRange ==
    \A j \in DOMAIN db[StoreNode].jobs :
        LET m == db[StoreNode].jobs[j].manifest
            rows == RowsOf(db[StoreNode], db[StoreNode].jobs[j].job_id)
            k == Len(rows)
        IN /\ k > 0
           /\ rows[1].frame_start = m.frame_start
           /\ rows[k].frame_end = m.frame_end
           /\ \A i \in 1..k :
                 /\ rows[i].frame_start <= rows[i].frame_end
                 /\ rows[i].frame_end - rows[i].frame_start + 1 <= m.chunk_size
                 /\ i < k => /\ rows[i].frame_end - rows[i].frame_start + 1 = m.chunk_size
                             /\ rows[i + 1].frame_start = rows[i].frame_end + 1

\* C20 witness: a job of at least three chunks whose last chunk is shorter
\* than chunk_size, and a job whose chunk_size exceeds its frame count.
C20_Witness ==
    /\ \E j \in DOMAIN db[StoreNode].jobs :
          LET m == db[StoreNode].jobs[j].manifest
              rows == RowsOf(db[StoreNode], db[StoreNode].jobs[j].job_id)
          IN /\ Len(rows) >= 3
             /\ rows[Len(rows)].frame_end - rows[Len(rows)].frame_start + 1 < m.chunk_size
    /\ \E j \in DOMAIN db[StoreNode].jobs :
          LET m == db[StoreNode].jobs[j].manifest
          IN /\ m.chunk_size > m.frame_end - m.frame_start + 1
             /\ Len(RowsOf(db[StoreNode], db[StoreNode].jobs[j].job_id)) = 1

\* C21: when the background thread of onBecomeLeader can neither restore nor
\* open the store, leader_db_ready stays false and the store stays closed;
\* and no dispatch tick runs on a node whose leader_db_ready is false.
C21_NoDispatchWithoutReadyStore ==
    [][\A n \in Nodes :
          /\ (\E restoreOk \in BOOLEAN :
                 /\ ~(snapshot.open /\ restoreOk)
                 /\ LeaderDbInitWith(n, restoreOk, FALSE))
                => ~leaderDbReady'[n] /\ ~db'[n].open
          /\ ~leaderDbReady[n]
                => ~(\E net \in [Nodes -> {"ok", "fail"}], snap \in BOOLEAN :
                        update(n, net, snap))]_vars

\* C21 witness: a node leads, its background thread has ended without a
\* ready store, and the shared snapshot holds a pending chunk it would
\* dispatch.
C21_Witness ==
    \E n \in Nodes :
        /\ up[n] /\ isLeader[n] /\ wasLeader[n] /\ ~leaderThread[n]
        /\ ~leaderDbReady[n] /\ ~db[n].open
        /\ snapshot.open
        /\ \E i \in DOMAIN snapshot.chunks : snapshot.chunks[i].state = "pending"

\* C22: whatever a node restores from {farm}/state/snapshot.db is one whole
\* database image of a single snapshot, also while a copy task is writing
\* the file or two copy tasks overlap on snapshot_tmp.db.
C22_RestoredImageIsOneWholeSnapshot ==
    snapFiles.restores > 0
        => \E v \in 1..snapFiles.version : snapFiles.restored = Image(v)

\* The leader-only routes of the HTTP interface.
LeaderOnlyRoutes ==
    {"POST /api/jobs", "GET /api/jobs", "GET /api/jobs/:id",
     "POST /api/jobs/:id/pause", "POST /api/jobs/:id/resume",
     "POST /api/jobs/:id/cancel", "POST /api/jobs/:id/archive",
     "POST /api/jobs/:id/retry-failed", "POST /api/jobs/:id/resubmit",
     "DELETE /api/jobs/:id", "POST /api/dispatch/complete",
     "POST /api/dispatch/failed", "POST /api/dispatch/frame-complete",
     "POST /api/nodes/:id/unsuspend"}

\* C23: a request for a leader-only route served by a node that does not
\* consider itself leader is answered 503 and leaves the store, the report
\* queues and the failure tracker of that node as they were.
C23_NonLeaderReplies503AndChangesNothing ==
    [][\A n \in Nodes :
          (lastOp'.n # lastOp.n /\ lastOp'.node = n
              /\ lastOp'.kind \in LeaderOnlyRoutes /\ ~isLeader[n])
            => /\ lastOp'.status = 503
               /\ db'[n] = db[n]
               /\ completionQueue'[n] = completionQueue[n]
               /\ failureQueue'[n] = failureQueue[n]
               /\ tracker'[n] = tracker[n]]_vars

\* C24: a peer whose HTTP poll fails three times in a row is not alive in the
\* registry after the third failure (or erased from it), whatever UDP
\* heartbeats arrived between the polls; a successful poll leaves it alive
\* with failed_polls = 0.
C24_ThreeFailedPollsFlipThePeerDead ==
    [][\A n \in Nodes : \A ok \in PollOutcomes :
          PollLoop(n, ok) =>
              \A w \in Nodes \ {n} :
                  /\ pollRun'[n][w] >= DEAD_AFTER_FAILED_POLLS
                        => ~peers'[n][w].is_alive
                  /\ (discoverPeers(peers[n], n)[w].present /\ ok[w])
                        => /\ peers'[n][w].is_alive
                           /\ peers'[n][w].failed_polls = 0]_vars

\* The frames of the reports of a queue, in queue order.
FramesOf(q) == [i \in DOMAIN q |-> q[i].frameStart]

FramesFrom(q, n) ==
    LET own == SelectSeq(q, LAMBDA a : a.report.node_id = n)
    IN [i \in DOMAIN own |-> own[i].report.frame_start]

Increasing(q) == \A i, j \in DOMAIN q : i < j => q[i] < q[j]

NonDecreasing(q) == \A i, j \in DOMAIN q : i < j => q[i] <= q[j]

\* C25: the reports a worker still holds (the batch of a running flush, then
\* the queue) are in the order it produced them, also after a flush failed
\* part-way or found no leader endpoint while new reports arrived, and the
\* reports of a worker reach a leader in that order (a report whose reply was
\* lost arrives again before any later one).
C25_UnsentReportsKeepTheirOrder ==
    \A n \in Nodes :
        /\ Increasing(FramesOf(flushBatch[n] \o pendingReports[n]))
        /\ \A t \in Nodes : NonDecreasing(FramesFrom(arrivals[t], n))

\* C25, the case: a flush that left reports unsent while others had arrived
\* has put them back, and the queue holds both.
C25_Witness ==
    /\ lastOp.kind = "flush" /\ lastOp.acted
    /\ Len(pendingReports[lastOp.node]) >= 2

NoDuplicates(q) == \A i, j \in DOMAIN q : q[i] = q[j] => i = j

\* C26: failed_on of a chunk never holds a node id twice, and no call on the
\* store takes a node id out of it except resetAllChunks of its job, which
\* empties it, and deleteJob of its job, which removes the chunk.
C26_FailedOnPersists ==
    [][\A i \in DOMAIN db[StoreNode].chunks :
          LET c == db[StoreNode].chunks[i]
              after == {d \in Range(db'[StoreNode].chunks) : Key(d) = Key(c)}
          IN /\ after = {}
                   => lastOp'.kind = "deleteJob" /\ lastOp'.job_id = c.job_id
             /\ \A d \in after :
                   /\ NoDuplicates(d.failed_on)
                   /\ \/ Range(c.failed_on) \subseteq Range(d.failed_on)
                      \/ /\ lastOp'.kind = "resetAllChunks"
                         /\ lastOp'.job_id = c.job_id
                         /\ d.failed_on = <<>>]_vars

\* C26, the case: a chunk that failed on a node and was brought back by
\* retry-failed is pending again with the node still in failed_on.
C26_Witness ==
    /\ lastOp.kind = "retryFailedChunks"
    /\ \E i \in DOMAIN db[StoreNode].chunks :
          /\ db[StoreNode].chunks[i].state = "pending"
          /\ db[StoreNode].chunks[i].retry_count = 0
          /\ db[StoreNode].chunks[i].failed_on # <<>>

\* C27: whenever a step adds node x to failed_on of a chunk in the open store
\* of leader n (a failure of x observed by the leader, reported by a remote
\* worker or written by the leader for a chunk it rendered itself), the
\* failure tracker of n records a failure of x at that time.
C27_EveryObservedFailureIsRecorded ==
    [][\A n \in Nodes :
          (up[n] /\ isLeader[n] /\ db[n].open /\ db'[n].open)
              => \A i \in DOMAIN db[n].chunks \cap DOMAIN db'[n].chunks :
                    Key(db'[n].chunks[i]) = Key(db[n].chunks[i])
                        => \A x \in Range(db'[n].chunks[i].failed_on)
                                        \ Range(db[n].chunks[i].failed_on) :
                               /\ tracker'[n][x].failure_count > 0
                               /\ tracker'[n][x].last_failure_ms = now]_vars

\* The reports waiting in the inbound queues of n, in the order they arrived.
Queued(n) ==
    LET len == Len(arrivals[n])
        k == Len(completionQueue[n]) + Len(failureQueue[n])
    IN SubSeq(arrivals[n], len - k + 1, len)

\* The store and the tracker after the reports arr are applied one by one in
\* the order of arr.
RECURSIVE ApplyInOrder(_, _, _)
ApplyInOrder(st, arr, nowMs) ==
    IF arr = <<>> THEN st
    ELSE LET r == Head(arr).report
             st1 == IF Head(arr).state = "completed"
                    THEN [db  |-> completeChunk(st.db, r.job_id, r.frame_start,
                                                r.frame_end, nowMs),
                          trk |-> st.trk]
                    ELSE ProcessFailure(st, r, nowMs)
         IN ApplyInOrder(st1, Tail(arr), nowMs)

\* C28: a dispatch tick leaves the store as if the queued reports had been
\* applied one by one in the order they arrived, completion and failure
\* reports alike, before the rest of the tick ran.
C28_ReportsAppliedInArrivalOrder ==
    [][\A n \in Nodes : \A net \in [Nodes -> {"ok", "fail"}], snap \in BOOLEAN :
          update(n, net, snap) =>
              LET r  == ApplyInOrder([db |-> db[n], trk |-> tracker[n]],
                                     Queued(n), now)
                  s3 == checkJobCompletions(detectDeadWorkers(r.db, peers[n]))
                  a  == assignWork(s3, dispatchQueue, n, r.trk, net)
              IN db'[n] = a.db]_vars

\* The leader's view of worker w on node n: its own PeerInfo or the registry.
ViewOf(n, w) == IF w = n THEN buildLocalPeerInfo(n) ELSE peers[n][w]

\* C29: a dispatch tick of leader n assigns a chunk to worker w only if, in
\* the view of n at that tick, w is the local node or a known peer, is alive,
\* has node_state active and render_state idle, and the failure tracker of n
\* does not hold it suspended.
C29_AssignsOnlyToIdleActiveAliveWorkers ==
    [][\A n \in Nodes, w \in Nodes :
          (ticks' # ticks /\ up[n] /\ isLeader[n] /\ NewlyAssignedTo(n, w) # {})
              => /\ ViewOf(n, w).present
                 /\ ViewOf(n, w).is_alive
                 /\ ViewOf(n, w).node_state = "active"
                 /\ ViewOf(n, w).render_state = "idle"
                 /\ ~isSuspended(tracker'[n], w)]_vars

\* C29, the case: the leader has given a chunk to a peer while it holds
\* another worker back (stopped, rendering, dead or suspended).
C29_Witness ==
    \E n \in Nodes : \E w \in Nodes \ {n} :
        /\ ticks > 0 /\ isLeader[n] /\ db[n].open
        /\ \E i \in DOMAIN db[n].chunks :
              /\ db[n].chunks[i].state = "assigned"
              /\ db[n].chunks[i].assigned_to = w
        /\ \E i \in DOMAIN db[n].chunks : db[n].chunks[i].state = "pending"
        /\ nodeState[n] = "stopped"
        /\ dispatchQueue[n] = <<>> /\ ~isRendering(n)

\* The pending chunks of active jobs in store s that a node with tags
\* nodeTags and id nodeId is eligible for.
EligibleChunks(s, nodeTags, nodeId) ==
    {i \in DOMAIN s.chunks :
        /\ s.chunks[i].state = "pending"
        /\ HasJob(s, s.chunks[i].job_id)
        /\ getJob(s, s.chunks[i].job_id).current_state = "active"
        /\ getJob(s, s.chunks[i].job_id).manifest.tags_required \subseteq nodeTags
        /\ nodeId \notin Range(s.chunks[i].failed_on)}

\* Chunk i is not after chunk k: its job is not after by (priority,
\* submission time), and within one job its frame_start is not larger.
NotAfter(s, i, k) ==
    LET ji == getJob(s, s.chunks[i].job_id)
        jk == getJob(s, s.chunks[k].job_id)
    IN \/ ji.priority < jk.priority
       \/ ji.priority = jk.priority /\ ji.submitted_at_ms < jk.submitted_at_ms
       \/ /\ ji.priority = jk.priority /\ ji.submitted_at_ms = jk.submitted_at_ms
          /\ ji.job_id = jk.job_id => s.chunks[i].frame_start <= s.chunks[k].frame_start

\* C30: for every node id and tag set, findNextPendingChunkForNode on the
\* leader's store returns an eligible pending chunk of an active job that no
\* other eligible chunk precedes by (priority, submission time, frame_start),
\* and returns nothing exactly when there is no eligible chunk.
C30_FindsTheFirstEligibleChunk ==
    \A w \in Nodes \cup {NullStr}, tags \in NodeTagSets :
        LET idx == findNextPendingChunkForNode(db[StoreNode], tags, w)
            el  == EligibleChunks(db[StoreNode], tags, w)
        IN IF el = {} THEN idx = 0
           ELSE idx \in el /\ \A k \in el : NotAfter(db[StoreNode], idx, k)

\* C30, the case: a chunk of the job submitted second was dispatched ahead of
\* a pending, unrestricted chunk of the job submitted first, because the
\* second job has the smaller priority value.
C30_Witness ==
    /\ lastOp.kind = "assignChunk" /\ lastOp.job_id = OtherJob
    /\ getJob(db[StoreNode], OtherJob).priority
           < getJob(db[StoreNode], JobIds1).priority
    /\ getJob(db[StoreNode], OtherJob).submitted_at_ms
           > getJob(db[StoreNode], JobIds1).submitted_at_ms
    /\ getJob(db[StoreNode], JobIds1).manifest.tags_required = {}
    /\ \E i \in DOMAIN db[StoreNode].chunks :
          /\ db[StoreNode].chunks[i].job_id = JobIds1
          /\ db[StoreNode].chunks[i].state = "pending"
          /\ db[StoreNode].chunks[i].failed_on = <<>>

\* The frames a frame report for frame f of job j adds to chunk c.
FramesAfter(c, j, f) ==
    IF c.job_id = j /\ f \in c.frame_start..c.frame_end
    THEN Range(c.completed_frames) \cup {f} ELSE Range(c.completed_frames)

\* C31: completed_frames of every chunk has no frame twice and only frames
\* of the chunk's range, and a frame report, applied singly or as a batch,
\* adds the frame to the chunk of the job whose range contains it and to no
\* other chunk; a frame outside every chunk of the job changes nothing.
C31_CompletedFramesWithinTheChunkRange ==
    /\ \A i \in DOMAIN db[StoreNode].chunks :
          LET c == db[StoreNode].chunks[i]
          IN /\ NoDuplicates(c.completed_frames)
             /\ Range(c.completed_frames) \subseteq c.frame_start..c.frame_end
    /\ \A j \in RetryJobs, f \in FrameInputs :
          LET one   == addCompletedFrames(db[StoreNode], j, f)
              batch == addCompletedFramesBatch(db[StoreNode], j, <<f, f>>)
          IN /\ one = batch
             /\ \A i \in DOMAIN db[StoreNode].chunks :
                   /\ Range(one.chunks[i].completed_frames)
                         = FramesAfter(db[StoreNode].chunks[i], j, f)
                   /\ NoDuplicates(one.chunks[i].completed_frames)
                   /\ [one.chunks[i] EXCEPT !.completed_frames = <<>>]
                         = [db[StoreNode].chunks[i] EXCEPT !.completed_frames = <<>>]

\* C31, the case: a batch of frame reports has been applied and a chunk of
\* more than one frame holds every frame of its range, each once.
C31_Witness ==
    /\ lastOp.kind = "addCompletedFramesBatch"
    /\ \E i \in DOMAIN db[StoreNode].chunks :
          /\ db[StoreNode].chunks[i].frame_start < db[StoreNode].chunks[i].frame_end
          /\ Len(db[StoreNode].chunks[i].completed_frames) = StoreFrames

\* The job rows of store s with the job id of chunk c.
JobRowsOf(s, c) == {j \in DOMAIN s.jobs : s.jobs[j].job_id = c.job_id}

\* C32: after every step each chunk of the leader's store has exactly one
\* job row; after deleteJob neither the job nor a chunk of it is left; a
\* submission that fails (duplicate job id, or chunk insert not committed)
\* leaves the store as it was.
C32_EveryChunkHasItsJob ==
    [][/\ \A i \in DOMAIN db'[StoreNode].chunks :
             Cardinality(JobRowsOf(db'[StoreNode], db'[StoreNode].chunks[i])) = 1
       /\ lastOp'.kind = "deleteJob"
             => /\ ~HasJob(db'[StoreNode], lastOp'.job_id)
                /\ \A i \in DOMAIN db'[StoreNode].chunks :
                      db'[StoreNode].chunks[i].job_id # lastOp'.job_id
       /\ (lastOp'.kind = "submitJob" /\ ~lastOp'.acted)
             => db'[StoreNode] = db[StoreNode]]_vars

\* C32, the case: a submission with the id of an existing job has failed and
\* the job is still there with a chunk that is no longer pending.
C32_Witness ==
    /\ lastOp.kind = "submitJob" /\ ~lastOp.acted
    /\ HasJob(db[StoreNode], lastOp.job_id)
    /\ \E i \in DOMAIN db[StoreNode].chunks :
          /\ db[StoreNode].chunks[i].job_id = lastOp.job_id
          /\ db[StoreNode].chunks[i].state # "pending"

\* C33: an entry leaves the registry of a running node only in a pass of the
\* peer loop in which, after the poll, the peer is not alive and has no
\* endpoint file; an entry that is alive after the poll, or whose endpoint
\* file exists, stays.
C33_OnlyDeadPeersWithoutFileAreRemoved ==
    [][\A n \in Nodes : \A w \in Nodes \ {n} :
          (up[n] /\ up'[n] /\ peers[n][w].present /\ ~peers'[n][w].present)
              => /\ ~endpointFile[w]
                 /\ \E ok \in PollOutcomes :
                       /\ PollLoop(n, ok)
                       /\ ~PollOutcome(peers[n][w], w, ok[w]).is_alive]_vars

\* C33, the case: a running node has erased a peer it had marked dead, the
\* peer being down with its endpoint file removed.
C33_Witness ==
    \E n \in Nodes : \E w \in Nodes \ {n} :
        /\ up[n] /\ ~up[w] /\ ~endpointFile[w]
        /\ w \in markedDead[n]
        /\ ~peers[n][w].present

\* C34: a worker answers POST /api/dispatch/assign with 200 and queues the
\* chunk only if it renders nothing, no accepted assignment waits in its
\* dispatch queue and it is not stopped; otherwise it answers 409 and
\* queues nothing.
C34_AcceptsOnlyWhenIdleAndNotStopped ==
    [][\A w \in Nodes, k \in ChunkKeys :
          (DispatchAssign(w, k)
             /\ (isRendering(w) \/ dispatchQueue[w] # <<>>
                   \/ nodeState[w] = "stopped"))
          => (lastOp'.status = 409 /\ dispatchQueue'[w] = dispatchQueue[w])]_vars

\* C35: a job or chunk row of a node's store changes only on a node that is
\* leader with its store ready and no background open or restore running,
\* and never in a step that serves an HTTP request.
C35_StoreWritesOnlyOnTheDispatchTick ==
    [][\A n \in Nodes :
          (db'[n].jobs # db[n].jobs \/ db'[n].chunks # db[n].chunks)
          => /\ isLeader[n] /\ leaderDbReady[n] /\ ~leaderThread[n]
             /\ ~(lastOp'.n # lastOp.n /\ lastOp'.kind \in RequestRoutes)]_vars

\* C36: in the store of a node that dispatches, no node has more than one
\* chunk in state assigned with assigned_to set to it.
C36_AtMostOneAssignedChunkPerNode ==
    \A n \in Nodes : CanDispatch(n) =>
        \A w \in Nodes :
            Cardinality({i \in DOMAIN db[n].chunks :
                            /\ db[n].chunks[i].state = "assigned"
                            /\ db[n].chunks[i].assigned_to = w}) <= 1

\* C37: a failure report of node w about a chunk that is not in state
\* assigned with assigned_to = w leaves the state, the retry_count and the
\* failed_on of that chunk as they were.
C37_LateReportsChangeNothing ==
    [][\A i \in DOMAIN db[StoreNode].chunks : \A w \in Nodes :
          LET c == db[StoreNode].chunks[i]
          IN (StoreFail(Key(c), w) /\ ~(c.state = "assigned" /\ c.assigned_to = w))
             => \A d \in Range(db'[StoreNode].chunks) :
                   Key(d) = Key(c) =>
                      /\ d.state = c.state
                      /\ d.retry_count = c.retry_count
                      /\ d.failed_on = c.failed_on]_vars

\* C38: a chunk that is completed is still there and completed after every
\* call on the store except resetAllChunks and deleteJob of its job.
C38_CompletedIsAbsorbing ==
    [][\A i \in DOMAIN db[StoreNode].chunks :
          LET c == db[StoreNode].chunks[i]
          IN (c.state = "completed"
                /\ ~(lastOp'.kind \in {"resetAllChunks", "deleteJob"}
                       /\ lastOp'.job_id = c.job_id))
             => \E d \in Range(db'[StoreNode].chunks) :
                   Key(d) = Key(c) /\ d.state = "completed"]_vars

\* Node n has polled node m since m last changed, and has recomputed the
\* leader since.
FullyPolled(n, m) ==
    /\ up[n] /\ up[m]
    /\ peers[n][m].present /\ peers[n][m].is_alive
    /\ peers[n][m].tags = configTags[m]
    /\ peers[n][m].node_state = nodeState[m]
    /\ isLeader[n] = (newLeader(peers[n], n) = n)

\* C39: the tags a running node uses for itself in the election are the
\* tags it advertises through /status, and two nodes that have fully polled
\* each other are not both leader.
C39_ElectionTagsAreTheAdvertisedTags ==
    /\ \A n \in Nodes : up[n] => localTags[n] = configTags[n]
    /\ \A n \in Nodes : \A m \in Nodes \ {n} :
          (FullyPolled(n, m) /\ FullyPolled(m, n)) => ~(isLeader[n] /\ isLeader[m])

\* Chunk k is assigned to node w in the store of n, and w neither has it
\* queued or rendering nor holds a report about it, nor is such a report
\* waiting in the queues of n.
AssignedButNotHeld(n, k, w) ==
    /\ CanDispatch(n)
    /\ \E i \in DOMAIN db[n].chunks :
          /\ Key(db[n].chunks[i]) = k
          /\ db[n].chunks[i].state = "assigned"
          /\ db[n].chunks[i].assigned_to = w
    /\ ~(up[w] /\ \/ k \in Range(dispatchQueue[w]) \cup Range(activeRender[w])
                  \/ \E r \in Range(pendingReports[w]) :
                        <<r.jobId, r.frameStart, r.frameEnd>> = k)
    /\ \A r \in Range(completionQueue[n]) \cup Range(failureQueue[n]) :
          <<r.job_id, r.frame_start, r.frame_end>> # k

\* C40: under fairness no chunk stays assigned forever to a node that is not
\* rendering it and has nothing to report about it; the chunk goes on to
\* another state or another node.
C40_NoChunkStaysWithANodeNotRenderingIt ==
    \A n \in Nodes : \A k \in ChunkKeys : \A w \in Nodes :
        AssignedButNotHeld(n, k, w) ~> ~AssignedButNotHeld(n, k, w)

=============================================================================
